---- MODULE Spec2Model ----
(***************************************************************************)
(* Model of roast-level.                                                   *)
(*                                                                         *)
(* Server: the POST /api/analyze and GET /api/health/abacus handlers,      *)
(* fetchWithRetry and the extraction of the JSON result from the upstream  *)
(* completion text (specification Spec; SpecLive with timers that fire,    *)
(* SpecPair with two requests at a time, SpecServed with one request that  *)
(* is served to its end).                                                  *)
(*                                                                         *)
(* Client: the analysis screen with its selected image, camera and         *)
(* submission (specification SpecClient; SpecResults with the Save button  *)
(* of the results screen), and the history kept in                         *)
(* AsyncStorage by the results, history and settings screens               *)
(* (specifications SpecHistory, SpecRaces and SpecSaves), and the settings *)
(* record (specification SpecSettings).  SpecWire is the analysis screen   *)
(* posting to the server.                                                  *)
(*                                                                         *)
(* Both sides run on a single-threaded event loop: an action is one        *)
(* synchronous run of handler code, from one await to the next, together   *)
(* with the render that follows its state updates.                         *)
(***************************************************************************)
EXTENDS Integers, Sequences, FiniteSets, TLC

VARIABLES
    \* server
    apiKey, req,
    \* analysis screen
    imageData, cameraPermission, showCamera, captures, picking,
    analysisMutation, posts,
    \* navigation
    tab, modal, params,
    \* history
    storage, history, isLoading, loads, saveRuns, now, saved, deleted, spare,
    \* settings
    settings, settingsMounted, settingsRuns, settingsStorage,
    \* the handler that ran last
    event

serverVars == <<apiKey, req>>

screenVars ==
    <<imageData, cameraPermission, showCamera, captures, picking,
      analysisMutation, posts>>

navVars == <<tab, modal, params>>

storeVars ==
    <<storage, history, isLoading, loads, saveRuns, now, saved, deleted, spare>>

settingsVars == <<settings, settingsMounted, settingsRuns, settingsStorage>>

clientVars == <<screenVars, navVars, storeVars, settingsVars, event>>

vars == <<serverVars, clientVars>>

----------------------------------------------------------------------------
(* Bounds of the model *)

\* encoded lengths sampled on each side of a threshold of the size guard
LenSlack == 1

\* most tokens of narration (leading and trailing together) in a completion
MaxNarr == 2

\* most saves started in a behaviour, counting those that made the initial
\* history
MaxSaves == 53

\* saves left to a behaviour that starts from a history of earlier sessions
SessionSaves == 2

\* most unusual events in a behaviour: a save, a load or a capture started
\* while another is running, a clock reading equal to the previous one, a
\* rejection by AsyncStorage
MaxUnusual == 1

\* most deletes in a behaviour
MaxDeletes == 2

----------------------------------------------------------------------------
(* Program constants *)

\* fetchWithRetry(url, options, retries = 2, timeoutMs = 15000)
DefaultRetries == 2

\* GET /api/health/abacus calls fetchWithRetry(..., 0, 5000)
HealthRetries == 0

\* if (base64SizeKB > 4500)
SizeLimitKB == 4500

\* "data:".length, the argument of imageBase64.startsWith
DataPrefixLen == 5

\* history.slice(0, 50)
HistoryCap == 50

MsgRequired == "Image data is required"
MsgUnconfigured == "ABACUS_API_KEY is not configured"
MsgTooLarge == "Image too large (<num>KB). Please use a smaller image."
MsgRouteLLM == "RouteLLM error <num>: <text>"
MsgNoResponse == "No response from Abacus API"
MsgCouldNotParse == "Could not parse response from Abacus API"
MsgNotAFunction == "imageBase64.startsWith is not a function"
MsgFetchFailed == "fetch failed"
MsgAborted == "This operation was aborted"
MsgBodyTerminated == "terminated"
MsgBodyNotJson == "Unexpected token in JSON (response body)"
MsgSyntaxError == "Unexpected token in JSON (completion span)"
MsgUnreachable == "Unreachable"

\* an Error value: its message template with the interpolated values
Err(msg, num, text) == [msg |-> msg, num |-> num, text |-> text]

NoErr == Err("", 0, "")

----------------------------------------------------------------------------
(* Completion texts: sequences of tokens.  A token is a tuple: <<"{">> and  *)
(* <<"}">> are the braces, <<"x">> stands for any other prose character,   *)
(* <<key, value>> stands for one complete "key":"value" member of a JSON   *)
(* object (with the comma that separates it from its neighbour).           *)

LB == <<"{">>
RB == <<"}">>
Prose == <<"x">>

RequiredFields == {"roastLevel", "temperature", "temperatureRange", "notes"}

FieldOrder == <<"roastLevel", "temperature", "temperatureRange", "notes">>

\* values the upstream may give a field; roastLevel is free text
FieldValues(k) ==
    CASE k = "roastLevel" -> {"Dark", "Medium Dark"}
      [] k = "temperature" -> {"82"}
      [] k = "temperatureRange" -> {"80-85C"}
      [] OTHER -> {"tip"}

IsMember(tok) == Len(tok) = 2

RECURSIVE SeqsUpTo(_, _)
SeqsUpTo(S, n) ==
    IF n = 0 THEN {<<>>}
    ELSE LET shorter == SeqsUpTo(S, n - 1)
         IN shorter \cup {Append(s, t) : s \in shorter, t \in S}

Narrations == SeqsUpTo({LB, RB, Prose}, MaxNarr)

\* the members of an object in FieldOrder, for the fields in the domain of obj
RECURSIVE MembersFrom(_, _)
MembersFrom(obj, i) ==
    IF i > Len(FieldOrder) THEN <<>>
    ELSE IF FieldOrder[i] \in DOMAIN obj
         THEN <<(<<FieldOrder[i], obj[FieldOrder[i]]>>)>> \o MembersFrom(obj, i + 1)
         ELSE MembersFrom(obj, i + 1)

\* the JSON text of an object
Stringify(obj) == <<LB>> \o MembersFrom(obj, 1) \o <<RB>>

\* the objects the upstream may embed: any subset of the required fields
Objects ==
    UNION {[ks -> UNION {FieldValues(k) : k \in ks}] : ks \in SUBSET RequiredFields}

WellTyped(obj) == \A k \in DOMAIN obj : obj[k] \in FieldValues(k)

EmbeddedObjects == {obj \in Objects : WellTyped(obj)}

\* leading and trailing narration
NarrationPairs ==
    {p \in Narrations \X Narrations : Len(p[1]) + Len(p[2]) <= MaxNarr}

\* narration, then nothing or one object, then narration
Completions ==
    {p[1] \o mid \o p[2] :
        p \in NarrationPairs,
        mid \in {<<>>} \cup {Stringify(obj) : obj \in EmbeddedObjects}}

----------------------------------------------------------------------------
(* Extraction of the result from the completion text                       *)

Min(S) == CHOOSE x \in S : \A y \in S : x <= y

Max(S) == CHOOSE x \in S : \A y \in S : y <= x

\* a match that wants the whole content to be the object: /^\{[\s\S]*\}$/
RegexMatchAnchored(content) ==
    IF Len(content) >= 2 /\ content[1] = LB /\ content[Len(content)] = RB
    THEN content
    ELSE <<>>

\* content.match(/\{[\s\S]*\}/): the leftmost "{" that has a "}" after it,
\* then greedily up to the last "}" of the text; <<>> when there is no match
RegexMatch(content) ==
    LET opens == {i \in 1..Len(content) :
                    /\ content[i] = LB
                    /\ \E j \in (i + 1)..Len(content) : content[j] = RB}
    IN IF opens = {} THEN <<>>
       ELSE LET i == Min(opens)
                j == Max({k \in (i + 1)..Len(content) : content[k] = RB})
            IN SubSeq(content, i, j)

\* the five categories the prompt asks for (lines 51-56)
RoastCategories == {"Light", "Medium-Light", "Medium", "Medium-Dark", "Dark"}

\* a parse that accepts a roastLevel of the five categories only
JSONParseKnownRoast(span) ==
    LET inner == 2..(Len(span) - 1)
        valid == /\ Len(span) >= 2
                 /\ span[1] = LB
                 /\ span[Len(span)] = RB
                 /\ \A i \in inner :
                       /\ IsMember(span[i])
                       /\ span[i][1] = "roastLevel" => span[i][2] \in RoastCategories
        keys == {span[i][1] : i \in inner}
        last(k) == Max({i \in inner : span[i][1] = k})
    IN IF valid
       THEN [ok |-> TRUE, value |-> [k \in keys |-> span[last(k)][2]]]
       ELSE [ok |-> FALSE, value |-> <<>>]

\* a parse that skips what it cannot read between the braces and keeps the
\* members it finds
JSONParseLenient(span) ==
    LET inner == {i \in 2..(Len(span) - 1) : IsMember(span[i])}
        keys == {span[i][1] : i \in inner}
        last(k) == Max({i \in inner : span[i][1] = k})
    IN [ok |-> TRUE, value |-> [k \in keys |-> span[last(k)][2]]]

\* JSON.parse of a span that starts with "{": a JSON object is the two
\* braces around members only (a later member of the same key wins);
\* anything else between the braces is a SyntaxError
JSONParse(span) ==
    LET inner == 2..(Len(span) - 1)
        valid == /\ Len(span) >= 2
                 /\ span[1] = LB
                 /\ span[Len(span)] = RB
                 /\ \A i \in inner : IsMember(span[i])
        keys == {span[i][1] : i \in inner}
        last(k) == Max({i \in inner : span[i][1] = k})
    IN IF valid
       THEN [ok |-> TRUE, value |-> [k \in keys |-> span[last(k)][2]]]
       ELSE [ok |-> FALSE, value |-> <<>>]

\* an extraction without the check of jsonMatch: jsonMatch[0] of null throws
ExtractResultUnchecked(content) ==
    IF content = <<>>
    THEN [ok |-> FALSE, value |-> <<>>, error |-> Err(MsgNoResponse, 0, "")]
    ELSE LET parsed == JSONParse(RegexMatch(content))
         IN IF RegexMatch(content) = <<>>
            THEN [ok |-> FALSE, value |-> <<>>,
                  error |-> Err("Cannot read properties of null (reading '0')", 0, "")]
            ELSE IF parsed.ok
                 THEN [ok |-> TRUE, value |-> parsed.value, error |-> NoErr]
                 ELSE [ok |-> FALSE, value |-> <<>>,
                       error |-> Err(MsgSyntaxError, 0, "")]

\* an extraction that takes an absent or empty content for an empty result
ExtractResultOfNothing(content) ==
    IF content = <<>>
    THEN [ok |-> TRUE, value |-> <<>>, error |-> NoErr]
    ELSE LET parsed == JSONParse(RegexMatch(content))
         IN IF RegexMatch(content) = <<>>
            THEN [ok |-> FALSE, value |-> <<>>,
                  error |-> Err(MsgCouldNotParse, 0, "")]
            ELSE IF parsed.ok
                 THEN [ok |-> TRUE, value |-> parsed.value, error |-> NoErr]
                 ELSE [ok |-> FALSE, value |-> <<>>,
                       error |-> Err(MsgSyntaxError, 0, "")]

\* lines 123-133 of analyzeWithAbacus: what the completion content becomes,
\* a returned result or a thrown error
ExtractResult(content) ==
    IF content = <<>>
    THEN [ok |-> FALSE, value |-> <<>>, error |-> Err(MsgNoResponse, 0, "")]
    ELSE LET jsonMatch == RegexMatch(content)
         IN IF jsonMatch = <<>>
            THEN [ok |-> FALSE, value |-> <<>>,
                  error |-> Err(MsgCouldNotParse, 0, "")]
            ELSE LET parsed == JSONParse(jsonMatch)
                 IN IF parsed.ok
                    THEN [ok |-> TRUE, value |-> parsed.value, error |-> NoErr]
                    ELSE [ok |-> FALSE, value |-> <<>>,
                          error |-> Err(MsgSyntaxError, 0, "")]

----------------------------------------------------------------------------
(* The image payload of a request body: the imageBase64 field              *)

\* an estimate rounded to the nearest KB
base64SizeKBRounded(len) == ((len * 3) + (2 * 1024)) \div (4 * 1024)

\* Math.ceil((imageBase64.length * 3) / 4 / 1024)
base64SizeKB(len) == ((len * 3) + (4 * 1024 - 1)) \div (4 * 1024)

\* the largest encoded length whose estimate is SizeLimitKB
LimitLen == (SizeLimitKB * 4 * 1024) \div 3

\* encoded lengths on each side of the threshold of the size guard
NearLimit == (LimitLen - LenSlack)..(LimitLen + LenSlack)

\* absent: the body has no imageBase64; empty: it is ""; nonString: a truthy
\* JSON value that is not a string; string: a non-empty string of len
\* characters whose scheme is "data" when it starts with "data:", "other" when
\* it starts with another URI scheme such as "file:", and "none" otherwise
Payloads ==
    {[kind |-> k, len |-> 0, scheme |-> "none"] : k \in {"absent", "empty", "nonString"}}
      \cup {[kind |-> "string", len |-> n, scheme |-> "none"] : n \in {1} \cup NearLimit}
      \cup {[kind |-> "string", len |-> n, scheme |-> "data"] :
                n \in {DataPrefixLen, LimitLen, LimitLen + 1}}
      \cup {[kind |-> "string", len |-> n, scheme |-> "other"] : n \in {DataPrefixLen}}

NoPayload == [kind |-> "absent", len |-> 0, scheme |-> "none"]

\* a presence check that lets the empty string through
FalsyOnlyUndefined(img) == img.kind = "absent"

\* !imageBase64
Falsy(img) == img.kind \in {"absent", "empty"}

\* const { imageBase64 } = req.body: the field of that name, undefined when
\* the body has none
Destructure(body) ==
    IF "imageBase64" \in DOMAIN body THEN body.imageBase64 ELSE NoPayload

\* "data:image/jpeg;base64,".length
DataUriHeaderLen == 23

\* a normalisation that lets every URI scheme through
imageUrlAnyScheme(img) ==
    IF img.scheme # "none"
    THEN img
    ELSE [kind |-> "string", len |-> DataUriHeaderLen + img.len, scheme |-> "data"]

\* imageBase64.startsWith("data:") ? imageBase64 : `data:image/jpeg;base64,${imageBase64}`
imageUrl(img) ==
    IF img.scheme = "data"
    THEN img
    ELSE [kind |-> "string", len |-> DataUriHeaderLen + img.len, scheme |-> "data"]

----------------------------------------------------------------------------
(* Upstream responses and HTTP responses                                   *)

\* a Response of fetch, which resolves when the status line and the headers
\* of the answer have arrived: from is the number of the network call it
\* answers
NoResponse == [from |-> 0, ok |-> FALSE, status |-> 0]

UpstreamAnswers ==
    {[from |-> 0, ok |-> FALSE, status |-> st] : st \in {401, 500}}
      \cup {[from |-> 0, ok |-> TRUE, status |-> 200]}

\* the body of an answer, which arrives after the Response: readable says
\* whether it can be read to the end; kind is what it holds: "text" (any
\* text), "notJson", "noContent" (JSON without choices[0].message.content)
\* or "content" (JSON with it, content being the completion text)
NoBody == [readable |-> FALSE, kind |-> "none", text |-> "", content |-> <<>>]

TextBodies ==
    {[readable |-> rd, kind |-> "text", text |-> tx, content |-> <<>>] :
        rd \in BOOLEAN, tx \in {"", "denied"}}

JsonBodies ==
    {[readable |-> rd, kind |-> k, text |-> "", content |-> <<>>] :
        rd \in BOOLEAN, k \in {"notJson", "noContent"}}
    \cup {[readable |-> TRUE, kind |-> "content", text |-> "", content |-> c] :
            c \in Completions}

\* kind "error" is the body {error: message}, "result" the body that is the
\* analysis result, "health" the body {status: word}
NoHttp ==
    [status |-> 0, kind |-> "none", result |-> <<>>, error |-> NoErr, word |-> ""]

HttpError(status, err) ==
    [status |-> status, kind |-> "error", result |-> <<>>, error |-> err, word |-> ""]

HttpResult(result) ==
    [status |-> 200, kind |-> "result", result |-> result, error |-> NoErr, word |-> ""]

HttpHealth(status, word) ==
    [status |-> status, kind |-> "health", result |-> <<>>, error |-> NoErr, word |-> word]

----------------------------------------------------------------------------
(* State                                                                   *)
(*  apiKey  process.env.ABACUS_API_KEY: "absent", "empty" or "set"         *)
(*  req     the requests being handled, each with the locals of its        *)
(*          handler: pc (where the handler is suspended), route, image     *)
(*          (req.body.imageBase64), sent (the image URL in the upstream    *)
(*          request body), retries and attempt (of fetchWithRetry), timers *)
(*          (the attempts whose setTimeout is pending), inflight (the      *)
(*          attempts whose fetch is neither settled nor aborted), response *)
(*          (what fetchWithRetry returned), body (what reading the body of *)
(*          the response gave), http (the answer sent) and the             *)
(*          history of the run: calls (fetch calls issued), outcomes (how  *)
(*          each call ended), answers (HTTP answers sent)                  *)

ApiKeys == {"absent", "empty", "set"}

ReqIds == {"r1"}

\* two requests handled at the same time: Express runs the handler once
\* per request, each run with its own locals
PairIds == {"p1", "p2"}

\* the payloads a request may carry; of those of a pair none, a short one
\* or one that is too large
PayloadsOf(r) ==
    IF r \in PairIds
    THEN {NoPayload} \cup {[kind |-> "string", len |-> n, scheme |-> "none"] :
                               n \in {1, LimitLen + 1}}
    ELSE Payloads

\* the bodies a 2xx answer may have; for a pair one that cannot be read, or
\* a completion that is empty, prose, prose in braces or just one object
JsonBodiesOf(r) ==
    IF r \in PairIds
    THEN {[readable |-> FALSE, kind |-> "notJson", text |-> "", content |-> <<>>]}
           \cup {[readable |-> TRUE, kind |-> "content", text |-> "", content |-> c] :
                    c \in {<<>>, <<Prose>>, <<LB, Prose, RB>>}
                           \cup {Stringify(obj) :
                                   obj \in {o \in EmbeddedObjects :
                                              DOMAIN o \in {RequiredFields, {}}}}}
    ELSE JsonBodies

IdleReq ==
    [pc |-> "idle", route |-> "none", image |-> NoPayload, sent |-> NoPayload,
     retries |-> 0, attempt |-> 0, timers |-> {}, inflight |-> {},
     response |-> NoResponse, body |-> NoBody, http |-> NoHttp,
     calls |-> 0, outcomes |-> <<>>, answers |-> 0]

----------------------------------------------------------------------------
(* The handlers' ways out                                                  *)

\* res.status(..).json(..) / res.json(..): the handler returns
Answer(q, http) ==
    [q EXCEPT !.pc = "done", !.http = http, !.answers = @ + 1]

\* a catch that answers with a message of its own instead of the error's
AnalyzeThrowsOwnWords(q, err) == Answer(q, HttpError(500, Err("Analysis failed", 0, "")))

\* a catch that logs the error and sends nothing
AnalyzeThrowsUnanswered(q, err) == [q EXCEPT !.pc = "done"]

\* an error thrown out of analyzeWithAbacus (lines 134-137 rethrow it) lands
\* in the catch of the POST handler (lines 152-156)
AnalyzeThrows(q, err) == Answer(q, HttpError(500, err))

\* a catch that answers as the POST handler does
HealthThrowsAs500(q) == Answer(q, HttpHealth(500, "down"))

\* the catch of the health handler (lines 184-186)
HealthThrows(q) == Answer(q, HttpHealth(503, "down"))

Throws(q, err) ==
    IF q.route = "analyze" THEN AnalyzeThrows(q, err) ELSE HealthThrows(q)

----------------------------------------------------------------------------
(* fetchWithRetry                                                          *)

\* lines 22-29: a new AbortController, its timer, and the fetch call
StartAttempt(q) ==
    [q EXCEPT !.pc = "fetching",
              !.timers = @ \cup {q.attempt},
              !.inflight = @ \cup {q.attempt},
              !.calls = @ + 1]

\* fetchWithRetry(url, options, retries, timeoutMs) up to its first await
EnterFetchWithRetry(q, retries) ==
    StartAttempt([q EXCEPT !.retries = retries, !.attempt = 0])

\* the error a failed attempt rejects with
AttemptError(how) ==
    IF how = "abort" THEN Err(MsgAborted, 0, "") ELSE Err(MsgFetchFailed, 0, "")

\* a retry limit that is one attempt short
LastAttemptOneShort(q) == q.attempt >= q.retries - 1

\* a catch that never rethrows
LastAttemptNever(q) == FALSE

\* if (attempt === retries) throw err
LastAttempt(q) == q.attempt = q.retries

\* a catch that leaves the timer of the attempt pending
CaughtKeepsTimer(q, how) ==
    LET c == [q EXCEPT !.inflight = @ \ {q.attempt},
                       !.outcomes = Append(@, how)]
    IN IF q.attempt = q.retries
       THEN Throws(c, AttemptError(how))
       ELSE StartAttempt([c EXCEPT !.attempt = @ + 1])

\* lines 32-36: the catch of an attempt that rejected (how: "network" or
\* "abort"), then either the throw or attempt++ and the test of the loop
\* (line 21): the next attempt, or line 39 when the loop is over
Caught(q, how) ==
    LET c == [q EXCEPT !.timers = @ \ {q.attempt},
                       !.inflight = @ \ {q.attempt},
                       !.outcomes = Append(@, how)]
        n == [c EXCEPT !.attempt = @ + 1]
    IN IF LastAttempt(c)
       THEN Throws(c, AttemptError(how))
       ELSE IF n.attempt <= n.retries
            THEN StartAttempt(n)
            ELSE Throws(n, Err(MsgUnreachable, 0, ""))

\* a loop that stores the response and goes on to the next attempt instead
\* of returning, while attempts are left
ReturnedWithoutReturn(q, resp) ==
    LET c == [q EXCEPT !.timers = @ \ {q.attempt},
                       !.inflight = @ \ {q.attempt},
                       !.outcomes = Append(@, "response"),
                       !.response = [resp EXCEPT !.from = q.calls]]
    IN IF LastAttempt(c) THEN c ELSE StartAttempt([c EXCEPT !.attempt = @ + 1])

\* lines 30-31: clearTimeout(id); return response
Returned(q, resp) ==
    [q EXCEPT !.timers = @ \ {q.attempt},
              !.inflight = @ \ {q.attempt},
              !.outcomes = Append(@, "response"),
              !.response = [resp EXCEPT !.from = q.calls]]

----------------------------------------------------------------------------
(* analyzeWithAbacus                                                       *)

\* !apiKey
Unconfigured(key) == key # "set"

\* a size guard that rounds the estimate down
TooLargeRoundedDown(img) == ((img.len * 3) \div (4 * 1024)) > SizeLimitKB

\* if (base64SizeKB > 4500)
TooLarge(img) == base64SizeKB(img.len) > SizeLimitKB

\* the checks with the credential looked at last
PreflightCredentialLast(img, key) ==
    IF img.kind = "nonString" THEN Err(MsgNotAFunction, 0, "")
    ELSE IF TooLarge(img) THEN Err(MsgTooLarge, base64SizeKB(img.len), "")
    ELSE IF Unconfigured(key) THEN Err(MsgUnconfigured, 0, "")
    ELSE NoErr

\* lines 43-84: the error thrown before fetchWithRetry is called, NoErr when
\* none is; the checks in the order of the code
Preflight(img, key) ==
    IF Unconfigured(key) THEN Err(MsgUnconfigured, 0, "")
    ELSE IF img.kind = "nonString" THEN Err(MsgNotAFunction, 0, "")
    ELSE IF TooLarge(img) THEN Err(MsgTooLarge, base64SizeKB(img.len), "")
    ELSE NoErr

\* an analysis that answers from the result another request got for the
\* same image
analyzeWithAbacusCached(q, key) ==
    LET err == Preflight(q.image, key)
        hits == {s \in DOMAIN req : /\ req[s].pc = "done"
                                    /\ req[s].image = q.image
                                    /\ req[s].http.kind = "result"}
    IN IF err # NoErr
       THEN AnalyzeThrows(q, err)
       ELSE IF hits # {}
            THEN Answer(q, req[CHOOSE s \in hits : TRUE].http)
            ELSE EnterFetchWithRetry([q EXCEPT !.sent = imageUrl(q.image)], DefaultRetries)

\* analyzeWithAbacus(imageBase64) up to its first await
analyzeWithAbacus(q, key) ==
    LET err == Preflight(q.image, key)
    IN IF err # NoErr
       THEN AnalyzeThrows(q, err)
       ELSE EnterFetchWithRetry([q EXCEPT !.sent = imageUrl(q.image)], DefaultRetries)

\* an upstream error that leaves the body text out of its message
AfterTextStatusOnly(q) ==
    IF q.body.readable
    THEN AnalyzeThrows(q, Err(MsgRouteLLM, q.response.status, ""))
    ELSE AnalyzeThrows(q, Err(MsgBodyTerminated, 0, ""))

\* lines 115-118: await response.text() has settled
AfterText(q) ==
    IF q.body.readable
    THEN AnalyzeThrows(q, Err(MsgRouteLLM, q.response.status, q.body.text))
    ELSE AnalyzeThrows(q, Err(MsgBodyTerminated, 0, ""))

\* a caller that goes back to fetchWithRetry for another attempt when the
\* body of the answer cannot be read or decoded
AfterJsonRetried(q) ==
    IF ~q.body.readable \/ q.body.kind = "notJson"
    THEN IF q.attempt < q.retries
         THEN StartAttempt([q EXCEPT !.attempt = @ + 1])
         ELSE AnalyzeThrows(q, Err(MsgBodyTerminated, 0, ""))
    ELSE LET x == ExtractResult(q.body.content)
         IN IF x.ok THEN Answer(q, HttpResult(x.value))
            ELSE AnalyzeThrows(q, x.error)

\* lines 120-133: await response.json() has settled
AfterJson(q) ==
    IF ~q.body.readable THEN AnalyzeThrows(q, Err(MsgBodyTerminated, 0, ""))
    ELSE IF q.body.kind = "notJson"
         THEN AnalyzeThrows(q, Err(MsgBodyNotJson, 0, ""))
         ELSE LET x == ExtractResult(q.body.content)
              IN IF x.ok THEN Answer(q, HttpResult(x.value))
                 ELSE AnalyzeThrows(q, x.error)

\* what follows the return of fetchWithRetry in the caller
AfterFetch(q) ==
    IF q.route = "analyze"
    THEN [q EXCEPT !.pc = IF q.response.ok THEN "readJson" ELSE "readText"]
    ELSE IF q.response.ok
         THEN Answer(q, HttpHealth(200, "ok"))
         ELSE Answer(q, HttpHealth(503, "down"))

----------------------------------------------------------------------------
(* Actions                                                                 *)

\* a POST /api/analyze request arrives, with any imageBase64 in its body
PostAnalyze(r) ==
    /\ req[r].pc = "idle"
    /\ \E img \in PayloadsOf(r) :
         req' = [req EXCEPT ![r] = [IdleReq EXCEPT !.pc = "received",
                                                   !.route = "analyze",
                                                   !.image = img]]
    /\ UNCHANGED <<apiKey, clientVars>>

\* a GET /api/health/abacus request arrives
GetHealth(r) ==
    /\ req[r].pc = "idle"
    /\ req' = [req EXCEPT ![r] = [IdleReq EXCEPT !.pc = "received",
                                                 !.route = "health"]]
    /\ UNCHANGED <<apiKey, clientVars>>

\* lines 141-151: the POST handler runs up to its first await or its answer
HandleAnalyze(r) ==
    /\ req[r].pc = "received"
    /\ req[r].route = "analyze"
    /\ req' = [req EXCEPT ![r] =
                 IF Falsy(req[r].image)
                 THEN Answer(req[r], HttpError(400, Err(MsgRequired, 0, "")))
                 ELSE analyzeWithAbacus(req[r], apiKey)]
    /\ UNCHANGED <<apiKey, clientVars>>

\* lines 159-177: the health handler runs up to its await of fetchWithRetry
HandleHealth(r) ==
    /\ req[r].pc = "received"
    /\ req[r].route = "health"
    /\ req' = [req EXCEPT ![r] = EnterFetchWithRetry(req[r], HealthRetries)]
    /\ UNCHANGED <<apiKey, clientVars>>

\* the upstream answers the call in flight: its fetch resolves
FetchResolve(r) ==
    /\ req[r].pc = "fetching"
    /\ req[r].attempt \in req[r].inflight
    /\ \E resp \in UpstreamAnswers :
         req' = [req EXCEPT ![r] = AfterFetch(Returned(req[r], resp))]
    /\ UNCHANGED <<apiKey, clientVars>>

\* the call in flight fails in transport: its fetch rejects
FetchReject(r) ==
    /\ req[r].pc = "fetching"
    /\ req[r].attempt \in req[r].inflight
    /\ req' = [req EXCEPT ![r] = Caught(req[r], "network")]
    /\ UNCHANGED <<apiKey, clientVars>>

\* line 23: the pending timer of attempt a fires and calls controller.abort(),
\* which rejects the fetch of that attempt when it is still in flight (it is
\* then the fetch the loop awaits) and does nothing to a settled one
TimerFire(r) ==
    /\ \E a \in req[r].timers :
         req' = [req EXCEPT ![r] =
                   IF a \in req[r].inflight /\ a = req[r].attempt
                   THEN Caught(req[r], "abort")
                   ELSE [req[r] EXCEPT !.timers = @ \ {a}]]
    /\ UNCHANGED <<apiKey, clientVars>>

\* the body of a non-2xx answer has been read, or reading it failed
ReadText(r) ==
    /\ req[r].pc = "readText"
    /\ \E body \in TextBodies :
         req' = [req EXCEPT ![r] = AfterText([req[r] EXCEPT !.body = body])]
    /\ UNCHANGED <<apiKey, clientVars>>

\* the body of a 2xx answer has been read and decoded, or that failed
ReadJson(r) ==
    /\ req[r].pc = "readJson"
    /\ \E body \in JsonBodiesOf(r) :
         req' = [req EXCEPT ![r] = AfterJson([req[r] EXCEPT !.body = body])]
    /\ UNCHANGED <<apiKey, clientVars>>

\* the answer is delivered and the request is over
Close(r) ==
    /\ req[r].pc = "done"
    /\ req' = [req EXCEPT ![r] = IdleReq]
    /\ UNCHANGED <<apiKey, clientVars>>

Next ==
    \E r \in DOMAIN req :
        \/ PostAnalyze(r)
        \/ GetHealth(r)
        \/ HandleAnalyze(r)
        \/ HandleHealth(r)
        \/ FetchResolve(r)
        \/ FetchReject(r)
        \/ TimerFire(r)
        \/ ReadText(r)
        \/ ReadJson(r)
        \/ Close(r)

----------------------------------------------------------------------------
(* Client: what a handler leaves behind for the properties                 *)

\* the result of takePictureAsync or of launchImageLibraryAsync: got says
\* whether there is a photo (an asset) at all, canceled whether the picker
\* was dismissed; base64 is a payload as above
NoPhoto == [got |-> FALSE, canceled |-> FALSE, uri |-> "", base64 |-> NoPayload]

\* event: the handler that ran last, with the id or the photo it was given,
\* the number of rows it removed, the Haptics calls it made in order, and
\* whether it ended in a rejection
Quiet ==
    [handler |-> "", id |-> 0, photo |-> NoPhoto, removed |-> 0, haptics |-> <<>>,
     failed |-> FALSE]

Ran(handler, haptics) == [Quiet EXCEPT !.handler = handler, !.haptics = haptics]

----------------------------------------------------------------------------
(* Client: the history under HISTORY_KEY in AsyncStorage                   *)

\* the value under the key: none (getItem gives null) or the JSON text of a
\* list of items
Absent == [present |-> FALSE, items |-> <<>>]

Blob(items) == [present |-> TRUE, items |-> items]

\* existing ? JSON.parse(existing) : []
Parse(blob) == IF blob.present THEN blob.items ELSE <<>>

\* a HistoryItem: id is the clock reading of Date.now(); save is the number
\* of the save that made it and stands for what it holds (image, result
\* fields, date)
Item(t, k) == [id |-> t, save |-> k]

\* history.unshift(newItem)
Unshift(list, item) == <<item>> \o list

\* a write of the whole list, without the slice
SliceNothing(list, n) == list

\* a slice that keeps one entry more
SliceInclusive(list, n) ==
    SubSeq(list, 1, IF Len(list) < n + 1 THEN Len(list) ELSE n + 1)

\* list.slice(0, n)
Slice(list, n) == SubSeq(list, 1, IF Len(list) < n THEN Len(list) ELSE n)

\* a filter that drops the oldest entry when no entry has the id
FilterOrOldest(list, id) ==
    IF \E i \in 1..Len(list) : list[i].id = id
    THEN SelectSeq(list, LAMBDA item : item.id # id)
    ELSE SubSeq(list, 1, Len(list) - 1)

\* history.filter((item) => item.id !== id)
Filter(list, id) == SelectSeq(list, LAMBDA item : item.id # id)

\* the list persisted by the saves numbered lo..hi made one after the other,
\* each at its own clock reading, onto an empty history: the latest
\* HistoryCap of them, the newest first
Stored(lo, hi) ==
    [i \in 1..(IF hi - lo + 1 < HistoryCap THEN hi - lo + 1 ELSE HistoryCap) |->
        Item(hi - i + 1, hi - i + 1)]

\* the ids a delete may be asked for: those of the rows at both ends of the
\* list on screen, and the id of the delete before (a second press on a row
\* that is on screen no longer)
DeleteIds(list, last) ==
    (IF list = <<>> THEN {} ELSE {list[1].id, list[Len(list)].id})
      \cup (IF last.handler = "handleDelete" THEN {last.id} ELSE {})

Tabs == {"Analysis", "History", "Settings"}

\* the run of an async handler suspended at an AsyncStorage call: read is
\* the value its getItem gives, taken when the call was issued (AsyncStorage
\* serves calls in the order they were issued)
NewRun(k) == [pc |-> "getItem", read |-> storage, save |-> k]

\* the runs suspended at pc, oldest first
At(runs, pc) == {i \in 1..Len(runs) : runs[i].pc = pc}

Drop(runs, i) == SubSeq(runs, 1, i - 1) \o SubSeq(runs, i + 1, Len(runs))

\* navigation.navigate("Results", ..) of onSuccess, for the history: a
\* result is on the results screen
ShowResults ==
    /\ ~modal
    /\ tab = "Analysis"
    /\ modal' = TRUE
    /\ event' = Ran("onSuccess", <<"notification.Success">>)
    /\ UNCHANGED <<serverVars, settingsVars, screenVars, storeVars, tab, params>>

\* handleSaveToHistory up to await AsyncStorage.getItem
SavePress ==
    /\ modal
    /\ saved < MaxSaves
    /\ (saveRuns # <<>>) => spare > 0
    /\ saveRuns' = Append(saveRuns, NewRun(saved + 1))
    /\ saved' = saved + 1
    /\ spare' = IF saveRuns # <<>> THEN spare - 1 ELSE spare
    /\ event' = Ran("handleSaveToHistory", <<"notification.Success">>)
    /\ UNCHANGED <<serverVars, settingsVars, screenVars, navVars, storage, history, isLoading,
                   loads, now, deleted>>

\* handleSaveToHistory from the getItem that resolved to await setItem: t is
\* the reading of Date.now(), fault the call AsyncStorage rejects if any
SaveRead ==
    /\ At(saveRuns, "getItem") # {}
    /\ LET i == Min(At(saveRuns, "getItem"))
           run == saveRuns[i]
       IN \E t \in {now, now + 1}, fault \in {"none", "getItem", "setItem"} :
            LET cost == (IF t = now THEN 1 ELSE 0) + (IF fault = "none" THEN 0 ELSE 1)
                written == Slice(Unshift(Parse(run.read), Item(t, run.save)), HistoryCap)
            IN /\ cost <= spare
               /\ spare' = spare - cost
               /\ now' = IF fault = "getItem" THEN now ELSE t
               /\ storage' = IF fault = "none" THEN Blob(written) ELSE storage
               /\ saveRuns' = [saveRuns EXCEPT ![i].pc =
                                 IF fault = "none" THEN "setItem" ELSE "rejected"]
    /\ event' = Ran("handleSaveToHistory", <<>>)
    /\ UNCHANGED <<serverVars, settingsVars, screenVars, navVars, history, isLoading, loads, saved,
                   deleted>>

\* handleSaveToHistory from the setItem that resolved: navigation.goBack();
\* or its catch after a rejection: console.error
SaveSettled ==
    /\ At(saveRuns, "setItem") \cup At(saveRuns, "rejected") # {}
    /\ LET i == Min(At(saveRuns, "setItem") \cup At(saveRuns, "rejected"))
       IN /\ saveRuns' = Drop(saveRuns, i)
          /\ modal' = IF saveRuns[i].pc = "setItem" THEN FALSE ELSE modal
          /\ event' = [Ran("handleSaveToHistory", <<>>) EXCEPT
                          !.failed = saveRuns[i].pc = "rejected"]
    /\ UNCHANGED <<serverVars, settingsVars, screenVars, tab, params, storage, history, isLoading,
                   loads, now, saved, deleted, spare>>

\* handleAnalyzeAnother: navigation.goBack()
handleAnalyzeAnother ==
    /\ modal
    /\ modal' = FALSE
    /\ event' = Ran("handleAnalyzeAnother", <<"impact.Light">>)
    /\ UNCHANGED <<serverVars, settingsVars, screenVars, storeVars, tab, params>>

\* loadHistory up to await AsyncStorage.getItem
loadHistory(runs) == Append(runs, NewRun(0))

\* the user moves to another tab; the history screen calls loadHistory when
\* it gets the focus (useFocusEffect)
SwitchTab(t) ==
    /\ ~modal
    /\ t # tab
    /\ (t = "History" /\ loads # <<>>) => spare > 0
    /\ tab' = t
    /\ loads' = IF t = "History" THEN loadHistory(loads) ELSE loads
    /\ spare' = IF t = "History" /\ loads # <<>> THEN spare - 1 ELSE spare
    /\ event' = Ran("focus", <<>>)
    /\ UNCHANGED <<serverVars, settingsVars, screenVars, modal, params, storage, history,
                   isLoading, saveRuns, now, saved, deleted>>

\* handleRefresh up to the await in loadHistory
handleRefresh ==
    /\ ~modal
    /\ tab = "History"
    /\ ~isLoading
    /\ (loads # <<>>) => spare > 0
    /\ loads' = loadHistory(loads)
    /\ spare' = IF loads # <<>> THEN spare - 1 ELSE spare
    /\ event' = Ran("handleRefresh", <<>>)
    /\ UNCHANGED <<serverVars, settingsVars, screenVars, navVars, storage, history, isLoading,
                   saveRuns, now, saved, deleted>>

\* loadHistory from the getItem that settled: setHistory(..), or the catch
\* when it rejected; then setIsLoading(false)
LoadSettled ==
    /\ loads # <<>>
    /\ \E rejects \in BOOLEAN :
         /\ rejects => spare > 0
         /\ spare' = IF rejects THEN spare - 1 ELSE spare
         /\ history' = IF rejects THEN history ELSE Parse(loads[1].read)
         /\ event' = [Ran("loadHistory", <<>>) EXCEPT !.failed = rejects]
    /\ loads' = Tail(loads)
    /\ isLoading' = FALSE
    /\ UNCHANGED <<serverVars, settingsVars, screenVars, navVars, storage, saveRuns, now, saved,
                   deleted>>

\* handleDelete(id): the setItem it awaits is its last statement; when
\* AsyncStorage rejects it nothing is written and the rejection is unhandled
handleDelete(id) ==
    /\ ~modal
    /\ tab = "History"
    /\ ~isLoading
    /\ deleted < MaxDeletes
    /\ deleted' = deleted + 1
    /\ LET updated == Filter(history, id)
       IN \E rejects \in BOOLEAN :
            /\ rejects => spare > 0
            /\ spare' = IF rejects THEN spare - 1 ELSE spare
            /\ history' = updated
            /\ storage' = IF rejects THEN storage ELSE Blob(updated)
            /\ event' = [Ran("handleDelete", <<"impact.Medium">>) EXCEPT
                            !.id = id,
                            !.removed = Len(history) - Len(updated),
                            !.failed = rejects]
    /\ UNCHANGED <<serverVars, settingsVars, screenVars, navVars, isLoading, loads, saveRuns,
                   now, saved>>

\* a clear that does not wait for the confirmation
handleClearHistoryUnasked ==
    /\ ~modal
    /\ tab = "Settings"
    /\ \E confirmed \in BOOLEAN :
         /\ storage' = Absent
         /\ event' = Ran(IF confirmed THEN "clearHistory" ELSE "handleClearHistory",
                         <<"impact.Medium">>)
    /\ UNCHANGED <<serverVars, settingsVars, screenVars, navVars, history, isLoading, loads,
                   saveRuns, now, saved, deleted, spare>>

\* handleClearHistory: the confirmation, and clearHistory when it is given
handleClearHistory ==
    /\ ~modal
    /\ tab = "Settings"
    /\ \E confirmed \in BOOLEAN, rejects \in BOOLEAN :
         /\ rejects => (confirmed /\ spare > 0)
         /\ spare' = IF rejects THEN spare - 1 ELSE spare
         /\ storage' = IF confirmed /\ ~rejects THEN Absent ELSE storage
         /\ event' = [Ran(IF confirmed THEN "clearHistory" ELSE "handleClearHistory",
                          IF confirmed /\ ~rejects
                          THEN <<"impact.Medium", "notification.Success">>
                          ELSE <<"impact.Medium">>)
                      EXCEPT !.failed = rejects]
    /\ UNCHANGED <<serverVars, settingsVars, screenVars, navVars, history, isLoading, loads,
                   saveRuns, now, saved, deleted>>

\* the history screen not loaded yet, no run pending, the clock at t after t
\* saves, and room for n unusual events
StoreAt(t, n) ==
    /\ history = <<>>
    /\ isLoading = TRUE
    /\ loads = <<>>
    /\ saveRuns = <<>>
    /\ now = t
    /\ saved = t
    /\ deleted = 0
    /\ spare = n

NavStart ==
    /\ tab = "Analysis"
    /\ modal = FALSE

----------------------------------------------------------------------------
(* Client: the analysis screen                                             *)

\* imageData: null, or {uri, base64}
NoImage == [set |-> FALSE, uri |-> "", base64 |-> NoPayload]

ImageData(photo) == [set |-> TRUE, uri |-> photo.uri, base64 |-> photo.base64]

Encoded(n) == [kind |-> "string", len |-> n, scheme |-> "none"]

EmptyString == [kind |-> "empty", len |-> 0, scheme |-> "none"]

\* two pictures, told apart by their uri and by the length of their payload
Pictures == {[uri |-> "file:a", len |-> 4], [uri |-> "file:b", len |-> 8]}

\* what takePictureAsync({base64: true}) or the first asset of the picker
\* may be: nothing, or a picture whose base64 is missing, empty or there
Photos ==
    {NoPhoto}
      \cup UNION {{[got |-> TRUE, canceled |-> FALSE, uri |-> p.uri, base64 |-> b] :
                      b \in {NoPayload, EmptyString, Encoded(p.len)}} : p \in Pictures}

\* what launchImageLibraryAsync resolves to: canceled (no assets), or assets
PickerResults == {[NoPhoto EXCEPT !.canceled = TRUE]} \cup Photos

\* a test that forgets the payload
DeliveredAnyPhoto(photo) == ~photo.canceled /\ photo.got

\* photo && photo.base64;
\* !result.canceled && result.assets[0] && result.assets[0].base64
Delivered(photo) == ~photo.canceled /\ photo.got /\ ~Falsy(photo.base64)

\* cameraPermission: what useCameraPermissions gives (null, before the first
\* answer of the hook, behaves as undetermined in handleTakePhoto)
Permission(granted, status, canAskAgain) ==
    [granted |-> granted, status |-> status, canAskAgain |-> canAskAgain]

Permissions ==
    {Permission(TRUE, "granted", TRUE), Permission(FALSE, "undetermined", TRUE),
     Permission(FALSE, "denied", TRUE), Permission(FALSE, "denied", FALSE)}

\* what requestCameraPermission resolves to
PermissionAnswers == {p \in Permissions : p.status # "undetermined"}

\* the body text of a response, told by what it is the JSON text of
NoText == [kind |-> "none", result |-> <<>>, error |-> NoErr]

TextOf(http) == [kind |-> http.kind, result |-> http.result, error |-> http.error]

\* an Error of the client: its message is a literal, or the text of a body
ClientError(literal, text) == [literal |-> literal, text |-> text]

NoClientError == ClientError("", NoText)

\* the results a 200 may carry: the server answers with whatever object it
\* parsed, so a complete one and the empty one
Results ==
    {obj \in EmbeddedObjects : DOMAIN obj = RequiredFields \/ DOMAIN obj = {}}

\* what the fetch of the client may settle with: the answers of the server,
\* a 502 with an empty body and a 200 whose body is not JSON (both from a
\* proxy in between), or no response at all
Replies ==
    {[arrives |-> TRUE, http |-> h] :
        h \in {HttpResult(obj) : obj \in Results}
              \cup {HttpError(400, Err(MsgRequired, 0, "")),
                    HttpError(500, Err(MsgRouteLLM, 401, "denied")),
                    [NoHttp EXCEPT !.status = 502],
                    [NoHttp EXCEPT !.status = 200]}}
      \cup {[arrives |-> FALSE, http |-> NoHttp]}

\* response.ok
Ok(http) == http.status >= 200 /\ http.status <= 299

\* the error mutationFn throws for a reply, NoClientError when it returns
mutationFn(reply) ==
    IF ~reply.arrives THEN ClientError("Network request failed", NoText)
    ELSE IF ~Ok(reply.http)
         THEN IF TextOf(reply.http) = NoText
              THEN ClientError("Analysis failed", NoText)
              ELSE ClientError("", TextOf(reply.http))
         ELSE IF reply.http.kind = "result" THEN NoClientError
              ELSE ClientError("JSON Parse error", NoText)

\* the state of the mutation that useMutation gives the screen
IdleMutation ==
    [status |-> "idle", variables |-> NoPayload, data |-> <<>>, error |-> NoClientError]

isPending(m) == m.status = "pending"

isError(m) == m.status = "error"

\* a mutation that keeps no error
SettledWithoutError(m, error) == [m EXCEPT !.status = "error"]

\* the state of the mutation after mutationFn threw error
SettledWithError(m, error) == [m EXCEPT !.status = "error", !.error = error]

SettledWithData(m, data) == [m EXCEPT !.status = "success", !.data = data]

\* analysisMutation.error?.message || "Analysis failed. Please try again."
ErrorText(m) ==
    IF m.error = NoClientError
    THEN ClientError("Analysis failed. Please try again.", NoText)
    ELSE m.error

\* the error card: what it shows, NoClientError when it is not rendered
ErrorCard(m) == IF isError(m) THEN ErrorText(m) ELSE NoClientError

\* a request body that carries the picture in a field named imageData
RequestBodyImageData(base64Image) == [imageData |-> base64Image]

\* a request body without the picture
RequestBodyWithoutImage(base64Image) == [imageBase64 |-> NoPayload]

\* JSON.stringify({ imageBase64: base64Image })
RequestBody(base64Image) == [imageBase64 |-> base64Image]

\* route params that leave the image out
ResultsParamsWithoutImage(image, data) ==
    [imageUri |-> "", imageBase64 |-> NoPayload, result |-> data]

\* { imageUri: imageData?.uri, imageBase64: imageData?.base64, result: data }
ResultsParams(image, data) ==
    [imageUri |-> image.uri, imageBase64 |-> image.base64, result |-> data]

\* the route params of the results screen
NoParams == [imageUri |-> "", imageBase64 |-> NoPayload, result |-> <<>>]

\* the main view of the screen is drawn and can be touched: the camera view
\* is not in its place, the results modal and the picker are not over it
MainView == tab = "Analysis" /\ ~modal /\ ~picking /\ ~showCamera

CameraView == tab = "Analysis" /\ ~modal /\ ~picking /\ showCamera

\* {imageData ? <Pressable onPress={handleAnalyze} ..> : null}
AnalyzeButton == MainView /\ imageData.set

\* an Analyze button that is never disabled
NeverDisabled(m) == FALSE

\* disabled={analysisMutation.isPending}
AnalyzeDisabled(m) == isPending(m)

\* handleTakePhoto, with the answer to requestCameraPermission when it asks
handleTakePhoto ==
    /\ MainView
    /\ \E answer \in PermissionAnswers :
         LET blocked == cameraPermission.status = "denied" /\ ~cameraPermission.canAskAgain
             after == IF cameraPermission.granted \/ blocked
                      THEN cameraPermission ELSE answer
         IN /\ cameraPermission' = after
            /\ showCamera' = after.granted
    /\ event' = Ran("handleTakePhoto", <<>>)
    /\ UNCHANGED <<serverVars, settingsVars, imageData, captures, picking, analysisMutation, posts,
                   navVars, storeVars>>

\* the close button of the camera view: setShowCamera(false)
CloseCamera ==
    /\ CameraView
    /\ showCamera' = FALSE
    /\ event' = Ran("closeCamera", <<>>)
    /\ UNCHANGED <<serverVars, settingsVars, imageData, cameraPermission, captures, picking,
                   analysisMutation, posts, navVars, storeVars>>

\* handleCapture up to await takePictureAsync
handleCapture ==
    /\ CameraView
    /\ (captures > 0) => spare > 0
    /\ captures' = captures + 1
    /\ spare' = IF captures > 0 THEN spare - 1 ELSE spare
    /\ event' = Ran("handleCapture", <<"impact.Medium">>)
    /\ UNCHANGED <<serverVars, settingsVars, imageData, cameraPermission, showCamera, picking,
                   analysisMutation, posts, navVars, storage, history, isLoading,
                   loads, saveRuns, now, saved, deleted>>

\* handleCapture from the takePictureAsync that resolved
CaptureSettled ==
    /\ captures > 0
    /\ captures' = captures - 1
    /\ \E photo \in Photos :
         /\ imageData' = IF Delivered(photo) THEN ImageData(photo) ELSE imageData
         /\ showCamera' = IF Delivered(photo) THEN FALSE ELSE showCamera
         /\ event' = [Ran("handleCapture", <<>>) EXCEPT !.photo = photo]
    /\ UNCHANGED <<serverVars, settingsVars, cameraPermission, picking, analysisMutation, posts,
                   navVars, storeVars>>

\* handlePickImage up to await launchImageLibraryAsync
handlePickImage ==
    /\ MainView
    /\ picking' = TRUE
    /\ event' = Ran("handlePickImage", <<"impact.Light">>)
    /\ UNCHANGED <<serverVars, settingsVars, imageData, cameraPermission, showCamera, captures,
                   analysisMutation, posts, navVars, storeVars>>

\* handlePickImage from the launchImageLibraryAsync that resolved
PickSettled ==
    /\ picking
    /\ picking' = FALSE
    /\ \E photo \in PickerResults :
         /\ imageData' = IF Delivered(photo) THEN ImageData(photo) ELSE imageData
         /\ event' = [Ran("handlePickImage", <<>>) EXCEPT !.photo = photo]
    /\ UNCHANGED <<serverVars, settingsVars, cameraPermission, showCamera, captures,
                   analysisMutation, posts, navVars, storeVars>>

\* handleClearImage
handleClearImage ==
    /\ MainView
    /\ imageData.set
    /\ imageData' = NoImage
    /\ event' = Ran("handleClearImage", <<"impact.Light">>)
    /\ UNCHANGED <<serverVars, settingsVars, cameraPermission, showCamera, captures, picking,
                   analysisMutation, posts, navVars, storeVars>>

\* analysisMutation.mutate(variables): the mutation is pending and
\* mutationFn has called fetch; the screen follows this mutation from now on
mutate(variables) ==
    /\ analysisMutation' = [IdleMutation EXCEPT !.status = "pending",
                                                !.variables = variables]
    /\ posts' = Append([i \in 1..Len(posts) |-> [posts[i] EXCEPT !.followed = FALSE]],
                       [body |-> RequestBody(variables), followed |-> TRUE])

\* a press on the Analyze button: nothing when the button is disabled,
\* handleAnalyze otherwise
PressAnalyze ==
    /\ AnalyzeButton
    /\ IF AnalyzeDisabled(analysisMutation)
       THEN /\ event' = Ran("disabled", <<>>)
            /\ UNCHANGED <<analysisMutation, posts>>
       ELSE IF imageData.set /\ ~Falsy(imageData.base64)
            THEN /\ mutate(imageData.base64)
                 /\ event' = Ran("handleAnalyze", <<"impact.Medium">>)
            ELSE /\ event' = Ran("handleAnalyze", <<>>)
                 /\ UNCHANGED <<analysisMutation, posts>>
    /\ UNCHANGED <<serverVars, settingsVars, imageData, cameraPermission, showCamera, captures,
                   picking, navVars, storeVars>>

\* mutationFn from the fetch of request i that settled with reply, to its
\* end: onSuccess with the imageData of the latest render, or onError
SettleWith(i, reply) ==
    /\ i \in 1..Len(posts)
    /\ posts' = Drop(posts, i)
    /\ LET error == mutationFn(reply)
       IN IF error = NoClientError
          THEN /\ analysisMutation' =
                    IF posts[i].followed
                    THEN SettledWithData(analysisMutation, reply.http.result)
                    ELSE analysisMutation
               /\ params' = ResultsParams(imageData, reply.http.result)
               /\ modal' = TRUE
               /\ event' = Ran("onSuccess", <<"notification.Success">>)
          ELSE /\ analysisMutation' =
                    IF posts[i].followed
                    THEN SettledWithError(analysisMutation, error)
                    ELSE analysisMutation
               /\ event' = Ran("onError", <<"notification.Error">>)
               /\ UNCHANGED <<params, modal>>
    /\ UNCHANGED <<settingsVars, imageData, cameraPermission, showCamera, captures,
                   picking, tab, storeVars>>

\* the fetch of request i has settled, with any reply
PostSettled(i) ==
    /\ \E reply \in Replies : SettleWith(i, reply)
    /\ UNCHANGED serverVars

----------------------------------------------------------------------------
(* Client: the settings record under SETTINGS_KEY in AsyncStorage          *)
(*  settings         the state of SettingsScreen                           *)
(*  settingsMounted  whether the screen has been mounted in this session   *)
(*  settingsRuns     the runs of loadSettings and saveSettings suspended   *)
(*                   at their AsyncStorage call, oldest first              *)
(*  settingsStorage  the value under the key: none, or the JSON text of a  *)
(*                   settings record                                       *)

\* useState<Settings>({ useFahrenheit: false })
DefaultSettings == [useFahrenheit |-> FALSE]

NoSettings == [present |-> FALSE, value |-> DefaultSettings]

SettingsStart ==
    /\ settings = DefaultSettings
    /\ settingsMounted = FALSE
    /\ settingsRuns = <<>>

\* the settings screen is mounted when its tab is first shown: useEffect
\* calls loadSettings, which runs up to await AsyncStorage.getItem
MountSettings ==
    /\ tab = "Settings"
    /\ ~settingsMounted
    /\ settingsMounted' = TRUE
    /\ settingsRuns' = Append(settingsRuns,
                             [kind |-> "load", read |-> settingsStorage,
                              value |-> DefaultSettings, failed |-> FALSE])
    /\ event' = Ran("loadSettings", <<>>)
    /\ UNCHANGED <<serverVars, screenVars, navVars, storeVars, settings,
                   settingsStorage>>

\* a setSettings that happens whether the write succeeded or not
WrittenOrNot(current, run) == run.value

\* what saveSettings leaves in the state of the screen when its setItem has
\* settled: setSettings(newSettings) after the await, nothing in the catch
AfterWrite(current, run) == IF run.failed THEN current ELSE run.value

\* handleToggleUnit(value), which runs saveSettings up to await
\* AsyncStorage.setItem; rejects says whether AsyncStorage will reject it
handleToggleUnit(value) ==
    /\ ~modal
    /\ tab = "Settings"
    /\ settingsMounted
    /\ LET newSettings == [settings EXCEPT !.useFahrenheit = value]
           overlap == \E i \in 1..Len(settingsRuns) : settingsRuns[i].kind = "save"
       IN \E rejects \in BOOLEAN :
            LET cost == (IF overlap THEN 1 ELSE 0) + (IF rejects THEN 1 ELSE 0)
            IN /\ cost <= spare
               /\ spare' = spare - cost
               /\ settingsStorage' = IF rejects THEN settingsStorage
                                     ELSE [present |-> TRUE, value |-> newSettings]
               /\ settingsRuns' = Append(settingsRuns,
                                        [kind |-> "save", read |-> NoSettings,
                                         value |-> newSettings, failed |-> rejects])
    /\ event' = Ran("handleToggleUnit", <<"impact.Light">>)
    /\ UNCHANGED <<serverVars, screenVars, navVars, storage, history, isLoading,
                   loads, saveRuns, now, saved, deleted, settings, settingsMounted>>

\* the oldest AsyncStorage call of the screen settles: loadSettings goes on
\* with if (stored) setSettings(JSON.parse(stored)), saveSettings with
\* setSettings(newSettings) or with its catch
SettingsSettled ==
    /\ settingsRuns # <<>>
    /\ LET run == settingsRuns[1]
       IN /\ settings' = IF run.kind = "save" THEN AfterWrite(settings, run)
                         ELSE IF run.read.present THEN run.read.value
                         ELSE settings
          /\ event' = [Ran(IF run.kind = "save" THEN "saveSettings" ELSE "loadSettings",
                           <<>>)
                       EXCEPT !.failed = run.failed]
    /\ settingsRuns' = Tail(settingsRuns)
    /\ UNCHANGED <<serverVars, screenVars, navVars, storeVars, settingsMounted,
                   settingsStorage>>

\* the app is closed and started again: the state of every screen is as at
\* the first start, what AsyncStorage holds is kept
Relaunch ==
    /\ imageData' = NoImage
    /\ showCamera' = FALSE
    /\ captures' = 0
    /\ picking' = FALSE
    /\ analysisMutation' = IdleMutation
    /\ posts' = <<>>
    /\ tab' = "Analysis"
    /\ modal' = FALSE
    /\ params' = NoParams
    /\ history' = <<>>
    /\ isLoading' = TRUE
    /\ loads' = <<>>
    /\ saveRuns' = <<>>
    /\ settings' = DefaultSettings
    /\ settingsMounted' = FALSE
    /\ settingsRuns' = <<>>
    /\ event' = Ran("launch", <<>>)
    /\ UNCHANGED <<serverVars, cameraPermission, storage, now, saved, deleted, spare,
                   settingsStorage>>

\* the screen as it is mounted
ScreenStart ==
    /\ imageData = NoImage
    /\ cameraPermission \in Permissions
    /\ showCamera = FALSE
    /\ captures = 0
    /\ picking = FALSE
    /\ analysisMutation = IdleMutation
    /\ posts = <<>>
    /\ params = NoParams

----------------------------------------------------------------------------
(* Specifications                                                          *)

\* no request at the server
ServerIdle ==
    /\ apiKey = "set"
    /\ req = [r \in ReqIds |-> IdleReq]

\* the app as it starts with nothing stored
ClientStart ==
    /\ ScreenStart
    /\ cameraPermission = Permission(FALSE, "undetermined", TRUE)
    /\ NavStart
    /\ storage = Absent
    /\ StoreAt(0, 0)
    /\ SettingsStart
    /\ settingsStorage = NoSettings
    /\ event = Quiet

\* the server, with the client left alone
Init ==
    /\ apiKey \in ApiKeys
    /\ req = [r \in ReqIds |-> IdleReq]
    /\ ClientStart

Spec == Init /\ [][Next]_vars

\* the analysis screen and the results screen over it, with the camera
\* permission in any state the system may hold, nothing stored and one
\* save left to the behaviour
InitClient ==
    /\ ServerIdle
    /\ ScreenStart
    /\ cameraPermission \in Permissions
    /\ NavStart
    /\ storage = Absent
    /\ StoreAt(MaxSaves - 1, MaxUnusual)
    /\ SettingsStart
    /\ settingsStorage = NoSettings
    /\ event = Quiet

NextClient ==
    \/ handleTakePhoto
    \/ CloseCamera
    \/ handleCapture
    \/ CaptureSettled
    \/ handlePickImage
    \/ PickSettled
    \/ handleClearImage
    \/ PressAnalyze
    \/ \E i \in 1..Len(posts) : PostSettled(i)
    \/ handleAnalyzeAnother

SpecClient == InitClient /\ [][NextClient]_vars

\* the analysis screen and the results screen with its Save button
SpecResults ==
    InitClient /\ [][NextClient \/ SavePress \/ SaveRead \/ SaveSettled]_vars

\* results saved one after the other from the first start of the app, each
\* at its own clock reading and with no rejection by AsyncStorage
InitSaves ==
    /\ ServerIdle
    /\ ClientStart

NextSaves ==
    \/ ShowResults
    \/ SavePress
    \/ SaveRead
    \/ SaveSettled
    \/ handleAnalyzeAnother

SpecSaves == InitSaves /\ [][NextSaves]_vars

\* the clock reading from which a later session starts
SessionStart == MaxSaves - SessionSaves

\* the histories earlier sessions may have left: none, or the latest
\* HistoryCap of the saves made so far
EarlierHistories == {Absent, Blob(Stored(1, SessionStart))}

\* the results, history and settings screens in a later session, with room
\* for n unusual events
SessionInit(n) ==
    /\ ServerIdle
    /\ ScreenStart
    /\ cameraPermission = Permission(TRUE, "granted", TRUE)
    /\ NavStart
    /\ storage \in EarlierHistories
    /\ StoreAt(SessionStart, n)
    /\ SettingsStart
    /\ settingsStorage = NoSettings
    /\ event = Quiet

\* a session in which every save and every load ends before the next one
\* starts, the clock moves on between two saves and AsyncStorage serves
\* every call
InitHistory == SessionInit(0)

NextHistory ==
    \/ ShowResults
    \/ SavePress
    \/ SaveRead
    \/ SaveSettled
    \/ handleAnalyzeAnother
    \/ \E t \in Tabs : SwitchTab(t)
    \/ handleRefresh
    \/ LoadSettled
    \/ \E id \in DeleteIds(history, event) : handleDelete(id)
    \/ handleClearHistory

SpecHistory == InitHistory /\ [][NextHistory]_vars

\* a session with unusual events
InitRaces == SessionInit(MaxUnusual)

SpecRaces == InitRaces /\ [][NextHistory]_vars

\* the settings screen from the first start of the app on, with room for
\* unusual events: a toggle while the write of another is pending, a
\* rejection by AsyncStorage
NextSettings ==
    \/ \E t \in Tabs : SwitchTab(t)
    \/ LoadSettled
    \/ MountSettings
    \/ \E value \in BOOLEAN : handleToggleUnit(value)
    \/ SettingsSettled
    \/ Relaunch

SpecSettings == InitClient /\ [][NextSettings]_vars

\* the server with two requests at a time
InitPair ==
    /\ apiKey \in ApiKeys
    /\ req = [r \in PairIds |-> IdleReq]
    /\ ClientStart

SpecPair == InitPair /\ [][Next]_vars

\* every attempt ends: when nothing else ends it, its timer fires (line 23)
Fairness == \A r \in ReqIds : WF_vars(TimerFire(r))

SpecLive == Init /\ [][Next]_vars /\ Fairness

\* the server with one request of the kind handled in pairs
InitOne ==
    /\ apiKey \in ApiKeys
    /\ req = [r \in {"p1"} |-> IdleReq]
    /\ ClientStart

\* one request and what makes it go on: the event loop runs the handler of
\* a request that arrived, the timer of an attempt fires (line 23), and the
\* read of a body that fetch returned settles, with the body or with the
\* error of the runtime (lines 116, 120)
SpecServed ==
    /\ InitOne
    /\ [][Next]_vars
    /\ \A r \in {"p1"} :
          /\ WF_vars(HandleAnalyze(r))
          /\ WF_vars(HandleHealth(r))
          /\ WF_vars(TimerFire(r))
          /\ WF_vars(ReadText(r))
          /\ WF_vars(ReadJson(r))

\* the oldest request of the client reaches the server: the POST handler
\* will read the image from the body the client sent
Deliver(r) ==
    /\ req[r].pc = "idle"
    /\ posts # <<>>
    /\ req' = [req EXCEPT ![r] = [IdleReq EXCEPT !.pc = "received",
                                                 !.route = "analyze",
                                                 !.image = Destructure(posts[1].body)]]
    /\ UNCHANGED <<apiKey, clientVars>>

\* the answer of the server reaches the client: the fetch of mutationFn
\* resolves with it
Reply(r) ==
    /\ req[r].pc = "done"
    /\ SettleWith(1, [arrives |-> TRUE, http |-> req[r].http])
    /\ req' = [req EXCEPT ![r] = IdleReq]
    /\ UNCHANGED apiKey

\* the analysis screen and the server it posts to: pictures from the
\* gallery, submissions, and the server's handling of each
SpecWire ==
    /\ InitOne
    /\ [][\/ handlePickImage
          \/ PickSettled
          \/ handleClearImage
          \/ PressAnalyze
          \/ handleAnalyzeAnother
          \/ \E r \in DOMAIN req :
                \/ Deliver(r)
                \/ HandleAnalyze(r)
                \/ FetchResolve(r)
                \/ FetchReject(r)
                \/ TimerFire(r)
                \/ ReadText(r)
                \/ ReadJson(r)
                \/ Reply(r)]_vars

----------------------------------------------------------------------------
(* Properties                                                              *)

\* the handler of request r has run (up to its first await at least)
Handled(q) == q.pc \notin {"idle", "received"}

\* the decoded size estimate of a payload, encoded length x 3/4 in KB rounded
\* up, exceeds 4500 KB: length x 3 / (4 x 1024) > 4500
Oversized(img) == img.kind = "string" /\ img.len * 3 > 4500 * 4 * 1024

\* C1: with the credential configured, a POST /api/analyze whose payload has
\* an estimated size above 4500 KB makes no upstream call at any time and,
\* once handled, has been answered with the image-too-large error, which
\* states the estimate.
C1_OversizedNeverCallsUpstream ==
    \A r \in ReqIds :
        (req[r].route = "analyze" /\ apiKey = "set" /\ Oversized(req[r].image))
        => /\ req[r].calls = 0
           /\ req[r].outcomes = <<>>
           /\ Handled(req[r])
              => /\ req[r].pc = "done"
                 /\ req[r].http.status = 500
                 /\ req[r].http.kind = "error"
                 /\ req[r].http.error.msg = MsgTooLarge
                 /\ req[r].http.error.num > 4500

\* an oversized payload just above the threshold has been rejected
C1_Witness ==
    \E r \in ReqIds :
        /\ req[r].route = "analyze"
        /\ apiKey = "set"
        /\ req[r].image.len = 6144001
        /\ req[r].pc = "done"
        /\ req[r].http.error.msg = MsgTooLarge
        /\ req[r].http.error.num = 4501

\* C2: a POST /api/analyze whose image field is absent or empty makes no
\* upstream call and, once handled, has been answered 400 with an error
\* body, whatever the credential is.
C2_MissingImageAnswered400 ==
    \A r \in ReqIds :
        (req[r].route = "analyze" /\ req[r].image.kind \in {"absent", "empty"})
        => /\ req[r].calls = 0
           /\ Handled(req[r])
              => /\ req[r].pc = "done"
                 /\ req[r].http.status = 400
                 /\ req[r].http.kind = "error"
                 /\ req[r].http.error.msg = MsgRequired

\* an empty image field has been answered 400 with the credential configured
C2_Witness ==
    \E r \in ReqIds :
        /\ req[r].route = "analyze"
        /\ req[r].image.kind = "empty"
        /\ apiKey = "set"
        /\ req[r].pc = "done"
        /\ req[r].http.status = 400

\* attempt i of the run ended without a response
FailedAt(q, i) == q.outcomes[i] \in {"network", "abort"}

\* the positions of the history at which an attempt was answered
AnsweredAt(q) == {i \in 1..Len(q.outcomes) : q.outcomes[i] = "response"}

\* C3: the response fetchWithRetry returns is the response of the first
\* attempt that was answered, every attempt before it failed, and no network
\* call is made after it; with retry limit 2, a failure of attempt 1 followed
\* by an answer to attempt 2 gives the response of attempt 2 after exactly 2
\* calls.
C3_FirstAnswerIsReturned ==
    \A r \in ReqIds :
        /\ (req[r].response.from # 0) <=> (AnsweredAt(req[r]) # {})
        /\ AnsweredAt(req[r]) # {}
           => /\ AnsweredAt(req[r]) = {Len(req[r].outcomes)}
              /\ req[r].response.from = Len(req[r].outcomes)
              /\ req[r].calls = Len(req[r].outcomes)
              /\ req[r].inflight = {}
        /\ (/\ req[r].retries = 2
            /\ Len(req[r].outcomes) = 2
            /\ FailedAt(req[r], 1)
            /\ req[r].outcomes[2] = "response")
           => (req[r].calls = 2 /\ req[r].response.from = 2)

\* attempt 1 timed out, attempt 2 was answered, and the answer was processed
C3_Witness ==
    \E r \in ReqIds :
        /\ req[r].retries = 2
        /\ req[r].outcomes = <<"abort", "response">>
        /\ req[r].response.from = 2
        /\ req[r].calls = 2
        /\ req[r].pc = "done"
        /\ req[r].http.status = 200

\* C4: with retry limit 2 (the analyze route), fetchWithRetry keeps trying
\* while fewer than three attempts have failed, makes exactly 3 network calls
\* when three attempts in a row fail, then throws the error of the third
\* attempt, which the POST handler answers as 500 with that error's message;
\* there is never a fourth call.
C4_ThreeFailuresThenLastError ==
    \A r \in ReqIds :
        (/\ req[r].route = "analyze"
         /\ req[r].calls > 0
         /\ \A i \in 1..Len(req[r].outcomes) : FailedAt(req[r], i))
        => /\ req[r].retries = 2
           /\ req[r].calls <= 3
           /\ Len(req[r].outcomes) < 3
              => (req[r].pc = "fetching" /\ req[r].calls = Len(req[r].outcomes) + 1)
           /\ Len(req[r].outcomes) = 3
              => /\ req[r].calls = 3
                 /\ req[r].pc = "done"
                 /\ req[r].http.status = 500
                 /\ req[r].http.kind = "error"
                 /\ req[r].http.error = AttemptError(req[r].outcomes[3])

\* two transport failures and a timeout have been answered 500
C4_Witness ==
    \E r \in ReqIds :
        /\ req[r].route = "analyze"
        /\ req[r].outcomes = <<"network", "network", "abort">>
        /\ req[r].calls = 3
        /\ req[r].pc = "done"
        /\ req[r].http.status = 500
        /\ req[r].http.error.msg = MsgAborted

\* C5: once an attempt of an analyze request has been answered with a non-2xx
\* response, no further network call is made (exactly one call when it was
\* the first attempt), nothing but the reading of the body precedes the
\* failure, and when the body is readable the request fails with the upstream
\* error that carries the status and the body text.
C5_Non2xxIsNotRetried ==
    \A r \in ReqIds :
        (/\ req[r].route = "analyze"
         /\ req[r].response.from # 0
         /\ ~req[r].response.ok)
        => /\ req[r].calls = req[r].response.from
           /\ req[r].outcomes[1] = "response" => req[r].calls = 1
           /\ req[r].pc \in {"readText", "done"}
           /\ (req[r].pc = "done" /\ req[r].body.readable)
              => /\ req[r].http.status = 500
                 /\ req[r].http.kind = "error"
                 /\ req[r].http.error
                      = Err(MsgRouteLLM, req[r].response.status, req[r].body.text)

\* a 401 with the body "denied" on the first attempt has been surfaced
C5_Witness ==
    \E r \in ReqIds :
        /\ req[r].route = "analyze"
        /\ req[r].outcomes = <<"response">>
        /\ req[r].response.status = 401
        /\ req[r].body.text = "denied"
        /\ req[r].body.readable
        /\ req[r].pc = "done"
        /\ req[r].calls = 1
        /\ req[r].http.error = Err(MsgRouteLLM, 401, "denied")

\* C6: with the credential absent (unset or empty), a POST /api/analyze with
\* any non-empty image payload makes no upstream call, no attempt and no
\* retry, and once handled has been answered with the unconfigured error.
C6_UnconfiguredNeverCallsUpstream ==
    \A r \in ReqIds :
        (/\ req[r].route = "analyze"
         /\ apiKey \in {"absent", "empty"}
         /\ req[r].image.kind \in {"string", "nonString"})
        => /\ req[r].calls = 0
           /\ req[r].outcomes = <<>>
           /\ req[r].attempt = 0
           /\ Handled(req[r])
              => /\ req[r].pc = "done"
                 /\ req[r].http.status = 500
                 /\ req[r].http.kind = "error"
                 /\ req[r].http.error = Err(MsgUnconfigured, 0, "")

\* an acceptable image has been refused for want of the credential
C6_Witness ==
    \E r \in ReqIds :
        /\ req[r].route = "analyze"
        /\ apiKey = "absent"
        /\ req[r].image.kind = "string"
        /\ ~Oversized(req[r].image)
        /\ req[r].pc = "done"
        /\ req[r].http.error.msg = MsgUnconfigured

\* C7: with the credential absent, a health check makes no upstream call and,
\* once handled, has been answered 503 down.
C7_HealthChecksCredential ==
    \A r \in ReqIds :
        (req[r].route = "health" /\ apiKey \in {"absent", "empty"})
        => /\ req[r].calls = 0
           /\ Handled(req[r])
              => /\ req[r].pc = "done"
                 /\ req[r].http.status = 503
                 /\ req[r].http.word = "down"

\* the completion of request q was read: a 2xx answer whose body is JSON
\* with a completion content, and the POST handler has answered
Extracted(q) ==
    /\ q.route = "analyze"
    /\ q.pc = "done"
    /\ q.response.ok
    /\ q.body.readable
    /\ q.body.kind = "content"

HasToken(text, tok) == \E i \in 1..Len(text) : text[i] = tok

IsNarration(text) == \A i \in 1..Len(text) : text[i] \in {LB, RB, Prose}

NumFields == Len(FieldOrder)

\* the completion is narration, then from position i one object that carries
\* the four required fields (each once), then narration
FramedAt(content, i) ==
    /\ i + NumFields + 1 <= Len(content)
    /\ content[i] = LB
    /\ content[i + NumFields + 1] = RB
    /\ \A k \in 1..NumFields :
          IsMember(content[i + k]) /\ content[i + k][1] = FieldOrder[k]
    /\ IsNarration(SubSeq(content, 1, i - 1))
    /\ IsNarration(SubSeq(content, i + NumFields + 2, Len(content)))

LeadAt(content, i) == SubSeq(content, 1, i - 1)

TrailAt(content, i) == SubSeq(content, i + NumFields + 2, Len(content))

\* the object embedded from position i
ObjectAt(content, i) ==
    [f \in RequiredFields |->
        content[i + (CHOOSE k \in 1..NumFields : FieldOrder[k] = f)][2]]

SpanIsObject(content) == JSONParse(RegexMatch(content)).ok

\* C9: when the span of the completion is a JSON object that lacks one of
\* the four required fields, the answer is an error and not a result; every
\* 200 answer of POST /api/analyze carries the four fields.
C9_MissingFieldIsRejected ==
    \A r \in ReqIds :
        /\ (/\ Extracted(req[r])
            /\ SpanIsObject(req[r].body.content)
            /\ ~(RequiredFields \subseteq DOMAIN JSONParse(RegexMatch(req[r].body.content)).value))
           => (req[r].http.status = 500 /\ req[r].http.kind = "error")
        /\ (req[r].route = "analyze" /\ req[r].pc = "done" /\ req[r].http.status = 200)
           => RequiredFields \subseteq DOMAIN req[r].http.result

\* the completion has no "{" with a "}" after it
NoSpan(content) ==
    ~\E i, j \in 1..Len(content) : i < j /\ content[i] = LB /\ content[j] = RB

\* C10: when the completion text has no {...} span, no result is returned and
\* the answer is 500 with the message of the error thrown: the
\* could-not-parse error for a non-empty text, the no-response error for the
\* empty text.
C10_NoSpanIsMalformed ==
    \A r \in ReqIds :
        (Extracted(req[r]) /\ NoSpan(req[r].body.content))
        => /\ req[r].http.status = 500
           /\ req[r].http.kind = "error"
           /\ req[r].http.result = <<>>
           /\ req[r].http.error =
                IF req[r].body.content = <<>>
                THEN Err(MsgNoResponse, 0, "")
                ELSE Err(MsgCouldNotParse, 0, "")

\* a completion of "}" then "{" has been answered with could-not-parse
C10_Witness ==
    \E r \in ReqIds :
        /\ Extracted(req[r])
        /\ req[r].body.content = <<RB, LB>>
        /\ req[r].http.status = 500
        /\ req[r].http.error.msg = MsgCouldNotParse

\* the error a POST /api/analyze that failed after the presence check ended
\* with, told from the record of the run: the credential, the payload, how
\* the last network call ended, the response and its body
FailureOf(q, key) ==
    IF key # "set" THEN Err(MsgUnconfigured, 0, "")
    ELSE IF q.image.kind = "nonString" THEN Err(MsgNotAFunction, 0, "")
    ELSE IF Oversized(q.image) THEN Err(MsgTooLarge, base64SizeKB(q.image.len), "")
    ELSE IF q.response = NoResponse
         THEN IF q.outcomes[Len(q.outcomes)] = "abort"
              THEN Err(MsgAborted, 0, "")
              ELSE Err(MsgFetchFailed, 0, "")
    ELSE IF ~q.body.readable THEN Err(MsgBodyTerminated, 0, "")
    ELSE IF ~q.response.ok THEN Err(MsgRouteLLM, q.response.status, q.body.text)
    ELSE IF q.body.kind = "notJson" THEN Err(MsgBodyNotJson, 0, "")
    ELSE ExtractResult(q.body.content).error

\* C14: an answered POST /api/analyze has status 200, 400 or 500: 400 exactly
\* when the image is missing (absent or empty), 200 with the extracted
\* result when the upstream answered 2xx with a usable completion, and 500
\* with a body {error: message} otherwise, the message being the one of the
\* error that ended the run.
C14_OutcomeToStatus ==
    \A r \in ReqIds :
        (req[r].route = "analyze" /\ req[r].pc = "done")
        => LET q == req[r]
               success == /\ q.response.ok
                          /\ q.body.readable
                          /\ q.body.kind = "content"
                          /\ ExtractResult(q.body.content).ok
           IN /\ q.http.status \in {200, 400, 500}
              /\ (q.http.status = 400) <=> Falsy(q.image)
              /\ (q.http.status = 400) => q.http = HttpError(400, Err(MsgRequired, 0, ""))
              /\ (q.http.status = 200) <=> (~Falsy(q.image) /\ success)
              /\ (q.http.status = 200)
                 => q.http = HttpResult(ExtractResult(q.body.content).value)
              /\ (q.http.status = 500)
                 => q.http = HttpError(500, FailureOf(q, apiKey))

\* a request whose upstream call was answered 401 with the text "denied" has
\* been answered 500 with the upstream error that quotes both
C14_Witness ==
    \E r \in ReqIds :
        /\ req[r].route = "analyze"
        /\ req[r].pc = "done"
        /\ req[r].response.status = 401
        /\ req[r].http = HttpError(500, Err(MsgRouteLLM, 401, "denied"))

\* C15: the health route makes at most one upstream call; answered, it has
\* said 200 {status: "ok"} exactly when that call returned a 2xx response
\* and 503 {status: "down"} otherwise (non-2xx, transport failure, timeout);
\* the body holds the status word only, never an error.
C15_HealthIsBinary ==
    \A r \in ReqIds :
        (req[r].route = "health")
        => /\ req[r].calls <= 1
           /\ (req[r].pc = "done")
              => /\ req[r].calls = 1
                 /\ req[r].http \in {HttpHealth(200, "ok"), HttpHealth(503, "down")}
                 /\ (req[r].http.status = 200) <=> req[r].response.ok
                 /\ req[r].http.error = NoErr

\* a health check whose only call timed out has been answered 503 "down"
C15_Witness ==
    \E r \in ReqIds :
        /\ req[r].route = "health"
        /\ req[r].pc = "done"
        /\ req[r].outcomes = <<"abort">>
        /\ req[r].http = HttpHealth(503, "down")

\* the ids of a list of items, in the order of the list
Ids(list) == [i \in 1..Len(list) |-> list[i].id]

\* no id twice
Distinct(list) ==
    \A i, j \in 1..Len(list) : i # j => list[i].id # list[j].id

\* the saves whose setItem has been issued
Written == saved - Cardinality(At(saveRuns, "getItem"))

\* C12: after n saves made one after the other with distinct ids onto an
\* empty history, the persisted list holds the latest min(n, 50) of them,
\* the newest first; after the 51st it holds saves 51 down to 2 and the
\* first save is gone.
C12_SavePrependsAndCaps ==
    LET list == Parse(storage)
        n == Written
    IN /\ Len(list) = (IF n < 50 THEN n ELSE 50)
       /\ \A i \in 1..Len(list) : list[i].save = n - i + 1
       /\ Distinct(list)
       /\ (n = 51) => (/\ list[1].save = 51
                       /\ list[50].save = 2
                       /\ \A i \in 1..Len(list) : list[i].save # 1)

\* the 51st save has been written and its run has ended
C12_Witness ==
    /\ saved = 51
    /\ saveRuns = <<>>
    /\ Len(Parse(storage)) = 50
    /\ Parse(storage)[1].save = 51
    /\ Parse(storage)[50].save = 2

C17_UniqueIdsNewestFirst ==
    LET list == Parse(storage)
    IN /\ Distinct(list)
       /\ \A i, j \in 1..Len(list) : i < j => list[i].save > list[j].save

\* C11: at most one POST /api/analyze of the client is outstanding: exactly
\* one while the submission is pending, none otherwise, however often the
\* Analyze button is pressed in between; a request is issued only by a press
\* that finds no submission pending.
C11_OnePostPerSubmission ==
    [][/\ Len(posts') = (IF isPending(analysisMutation') THEN 1 ELSE 0)
       /\ (Len(posts') > Len(posts))
          => (~isPending(analysisMutation) /\ posts = <<>>)
       /\ (event'.handler = "disabled") => posts' = posts]_vars

\* the button has been pressed while the one request is in flight
C11_Witness ==
    /\ event.handler = "disabled"
    /\ isPending(analysisMutation)
    /\ Len(posts) = 1

\* C16: when a submission fails, the mutation is in the error state with the
\* error that was thrown, the error card shows its message, the Error
\* notification feedback was triggered, and the selected image is what it
\* was, so that with an image selected the Analyze button is enabled and a
\* press submits that image again.
C16_FailureKeepsImage ==
    [][(event'.handler = "onError")
       => /\ isError(analysisMutation')
          /\ analysisMutation'.error # NoClientError
          /\ ErrorCard(analysisMutation') = analysisMutation'.error
          /\ event'.haptics = <<"notification.Error">>
          /\ imageData' = imageData
          /\ imageData'.set
             => (~AnalyzeDisabled(analysisMutation') /\ ~Falsy(imageData'.base64))]_vars

\* a submission of picture file:a was answered 500 and the card shows the body
C16_Witness ==
    /\ event.handler = "onError"
    /\ imageData.set
    /\ imageData.uri = "file:a"
    /\ ErrorCard(analysisMutation)
         = ClientError("", TextOf(HttpError(500, Err(MsgRouteLLM, 401, "denied"))))

\* C18: after "analyze another" the results screen is closed and no image
\* is selected.
C18_AnalyzeAnotherGivesIdle ==
    (event.handler = "handleAnalyzeAnother") => (~modal /\ imageData = NoImage)

\* C19: the selected image changes only by a capture or a pick that
\* delivered a photo with a non-empty payload, to that photo, or by a clear,
\* to none; a capture or pick that delivered always selects its photo,
\* whatever was selected; a cancelled pick, a photo without payload, a
\* permission request and the closing of the camera change nothing.
C19_ImageOnlyByAcquisition ==
    [][LET photo == event'.photo
           acquires == /\ event'.handler \in {"handleCapture", "handlePickImage"}
                       /\ photo.got
                       /\ ~photo.canceled
                       /\ photo.base64.kind = "string"
                       /\ photo.base64.len > 0
       IN /\ (imageData' # imageData)
             => \/ acquires
                \/ (event'.handler = "handleClearImage" /\ imageData' = NoImage)
          /\ (acquires /\ event' # event)
             => imageData' = [set |-> TRUE, uri |-> photo.uri, base64 |-> photo.base64]
          /\ (event'.handler \in {"handleTakePhoto", "closeCamera"})
             => imageData' = imageData]_vars

\* picture file:b has been picked while picture file:a was selected
C19_Witness ==
    /\ event.handler = "handlePickImage"
    /\ event.photo.uri = "file:b"
    /\ imageData.uri = "file:b"
    /\ imageData.base64 = Encoded(8)
    /\ analysisMutation.variables = Encoded(4)

\* C20: a request is issued only while an image with a non-empty payload is
\* selected, and its body carries that payload.
C20_SubmitsSelectedImage ==
    [][(Len(posts') > Len(posts))
       => /\ imageData.set
          /\ imageData.base64.kind = "string"
          /\ imageData.base64.len > 0
          /\ posts'[Len(posts')].body = [imageBase64 |-> imageData.base64]]_vars

\* the request in flight carries the payload of picture file:b
C20_Witness ==
    /\ event.handler = "handleAnalyze"
    /\ Len(posts) = 1
    /\ imageData.uri = "file:b"
    /\ posts[1].body.imageBase64 = Encoded(8)

\* the estimate of the claim for an encoded length: length x 3/4 bytes, in
\* KB of 1024 bytes, rounded up
EstimateKB(len) ==
    ((len * 3) \div (4 * 1024)) + (IF (len * 3) % (4 * 1024) = 0 THEN 0 ELSE 1)

\* C21: at most one attempt and one timer of a request are live, and they
\* are those of the current attempt: a timer is pending exactly while its
\* attempt is in flight, none is left when fetchWithRetry has returned or
\* thrown; an attempt that its timer aborted is a failed attempt: it is
\* followed by the next attempt while attempts are left, and as the last
\* attempt its abort error is the failure of the operation.
C21_OneAttemptOneTimer ==
    \A r \in ReqIds :
        LET q == req[r]
        IN /\ q.timers \subseteq {q.attempt}
           /\ q.inflight = q.timers
           /\ (q.timers # {}) <=> (q.pc = "fetching")
           /\ \A i \in 1..Len(q.outcomes) :
                 (q.outcomes[i] = "abort")
                 => IF i <= q.retries
                    THEN q.calls >= i + 1
                    ELSE /\ q.pc = "done"
                         /\ q.calls = i
                         /\ q.route = "analyze"
                            => (q.http.status = 500 /\ q.http.error.msg = MsgAborted)
                         /\ q.route = "health" => q.http.status = 503

\* the first attempt timed out and the second is in flight with its timer
C21_Witness ==
    \E r \in ReqIds :
        /\ req[r].outcomes = <<"abort">>
        /\ req[r].pc = "fetching"
        /\ req[r].attempt = 1
        /\ req[r].timers = {1}
        /\ req[r].inflight = {1}

\* C22: with the credential configured, a string payload is rejected as too
\* large exactly when its estimate (encoded length x 3/4 in KB, rounded up)
\* is greater than 4500, whatever its prefix is, and the error states that
\* estimate: encoded length 6144000 is accepted, 6144001 is rejected.
C22_RejectedAboveLimit ==
    \A r \in ReqIds :
        LET q == req[r]
        IN (/\ q.route = "analyze"
            /\ apiKey = "set"
            /\ q.image.kind = "string"
            /\ Handled(q))
           => /\ (q.http.error.msg = MsgTooLarge) <=> (EstimateKB(q.image.len) > 4500)
              /\ (q.calls = 0) <=> (EstimateKB(q.image.len) > 4500)
              /\ (q.http.error.msg = MsgTooLarge)
                 => q.http.error.num = EstimateKB(q.image.len)
              /\ (q.image.len = 6144000) => q.calls >= 1
              /\ (q.image.len = 6144001) => q.calls = 0

\* a data-URI of the largest accepted length is on its way upstream
C22_Witness ==
    \E r \in ReqIds :
        /\ req[r].route = "analyze"
        /\ apiKey = "set"
        /\ req[r].image.len = 6144000
        /\ req[r].image.scheme = "data"
        /\ req[r].pc = "fetching"
        /\ req[r].calls = 1

\* the upstream request of q has been built
Built(q) == q.route = "analyze" /\ q.calls >= 1

\* C23 as stated: the image sent upstream is a URI; a payload with a URI
\* scheme prefix is sent unchanged, a payload without one is sent behind
\* the data-URI header.
C23_AnySchemePassesThrough ==
    \A r \in ReqIds :
        Built(req[r])
        => /\ req[r].sent.scheme # "none"
           /\ (req[r].image.scheme # "none") => req[r].sent = req[r].image
           /\ (req[r].image.scheme = "none")
              => /\ req[r].sent.scheme = "data"
                 /\ req[r].sent.len = req[r].image.len + 23

\* C23: the image sent upstream is always a data-URI; a payload that starts
\* with "data:" is sent unchanged, and every other payload, one that starts
\* with another URI scheme included, is sent behind the header
\* "data:image/jpeg;base64,"; normalising what was sent changes nothing.
C23_DataUriPassesThrough ==
    \A r \in ReqIds :
        Built(req[r])
        => /\ req[r].sent.scheme = "data"
           /\ (req[r].image.scheme = "data") => req[r].sent = req[r].image
           /\ (req[r].image.scheme # "data")
              => /\ req[r].sent.kind = "string"
                 /\ req[r].sent.len = req[r].image.len + 23
           /\ imageUrl(req[r].sent) = req[r].sent

\* a payload that starts with another scheme went upstream behind the header
C23_Witness ==
    \E r \in ReqIds :
        /\ Built(req[r])
        /\ req[r].image.scheme = "other"
        /\ req[r].sent.scheme = "data"
        /\ req[r].sent.len = req[r].image.len + 23

\* C29: when the completion is one object with the four required fields
\* between narration that leaves the span alone, the answer is 200 and its
\* roastLevel is the string the completion gave, one of the five categories
\* or not.
C29_AnyRoastLevelIsReturned ==
    \A r \in ReqIds :
        LET q == req[r]
            c == q.body.content
        IN (/\ Extracted(q)
            /\ \E i \in 1..Len(c) :
                  /\ FramedAt(c, i)
                  /\ ~HasToken(LeadAt(c, i), LB)
                  /\ ~HasToken(TrailAt(c, i), RB))
           => /\ q.http.status = 200
              /\ q.http.kind = "result"
              /\ \A i \in 1..Len(c) :
                    (IsMember(c[i]) /\ c[i][1] = "roastLevel")
                    => q.http.result["roastLevel"] = c[i][2]

\* a roastLevel that is none of the five categories has been returned
C29_Witness ==
    \E r \in ReqIds :
        /\ Extracted(req[r])
        /\ req[r].http.kind = "result"
        /\ DOMAIN req[r].http.result = RequiredFields
        /\ req[r].http.result["roastLevel"] \notin RoastCategories

\* fetchWithRetry of request q is over: it returned or it threw
Finished(q) == q.calls >= 1 /\ q.pc # "fetching"

\* the calls of a run of fetchWithRetry are within 1..retries + 1, at most 3
\* for an analyze request and 1 for a health check; a finished run returned
\* the response of its last call or threw the error of its last attempt,
\* which was attempt number retries; line 39 has not been executed
BoundedCalls(q) ==
    /\ q.calls <= q.retries + 1
    /\ (q.route = "analyze") => q.calls <= 3
    /\ (q.route = "health" /\ Handled(q)) => q.calls = 1
    /\ (q.pc = "fetching") => q.calls = q.attempt + 1
    /\ q.http.error.msg # MsgUnreachable
    /\ Finished(q)
       => /\ Len(q.outcomes) = q.calls
          /\ \/ /\ q.outcomes[q.calls] = "response"
                /\ q.response.from = q.calls
             \/ /\ q.outcomes[q.calls] # "response"
                /\ q.calls = q.retries + 1
                /\ q.pc = "done"
                /\ q.route = "analyze"
                   => q.http.error = AttemptError(q.outcomes[q.calls])

\* C30: a run of fetchWithRetry makes at least 1 and at most retries + 1
\* network calls, never reaches the throw after the loop, and, every attempt
\* ending by a response, a failure or its timer, always comes to an end by
\* returning a response or throwing the error of the last attempt.
C30_BoundedCallsAndTermination ==
    /\ [](\A r \in ReqIds : BoundedCalls(req[r]))
    /\ \A r \in ReqIds : (req[r].pc = "fetching") ~> Finished(req[r])

\* the third call of an analyze request was answered after a failure and a
\* timeout
C30_Witness ==
    \E r \in ReqIds :
        /\ req[r].route = "analyze"
        /\ req[r].outcomes = <<"network", "abort", "response">>
        /\ req[r].calls = 3
        /\ Finished(req[r])

\* what the answer of a request is made from: its payload, and what the
\* upstream did to its calls
Inputs(q) == <<q.route, q.image, q.outcomes, q.response.status, q.body>>

\* request q ran on its own: its timer and its call in flight are those of
\* its own attempt, its calls are the attempts it made, the response it
\* holds is that of its own last call, and a payload that passes the checks
\* got an upstream call of its own
OwnRun(q, key) ==
    /\ q.timers \subseteq {q.attempt}
    /\ q.inflight = q.timers
    /\ q.calls = Len(q.outcomes) + Cardinality(q.inflight)
    /\ (q.response.from # 0) => q.response.from = q.calls
    /\ (/\ q.route = "analyze"
        /\ Handled(q)
        /\ key = "set"
        /\ q.image.kind = "string"
        /\ ~Oversized(q.image))
       => q.calls >= 1

\* C26: of two requests handled at the same time, a step of one leaves the
\* attempt counter, timers, response and answer of the other as they are;
\* each runs on its own, with an upstream call of its own even for the
\* image the other sent; and two requests that agree in payload and in what
\* the upstream did to their calls are answered alike.
C26_RequestsAreIndependent ==
    [][\A r \in PairIds :
         /\ OwnRun(req'[r], apiKey')
         /\ \A s \in PairIds \ {r} :
               /\ (req'[r] # req[r]) => req'[s] = req[s]
               /\ (/\ req'[r].pc = "done"
                   /\ req'[s].pc = "done"
                   /\ Inputs(req'[r]) = Inputs(req'[s]))
                  => req'[r].http = req'[s].http]_vars

\* the same image was sent twice: one request was answered with a result
\* after one call, the other with an error after three
C26_Witness ==
    /\ DOMAIN req = PairIds
    /\ req["p1"].image = req["p2"].image
    /\ req["p1"].image.kind = "string"
    /\ req["p1"].pc = "done"
    /\ req["p2"].pc = "done"
    /\ req["p1"].http.kind = "result"
    /\ req["p1"].calls = 1
    /\ req["p2"].http.status = 500
    /\ req["p2"].calls = 3

\* C24: a clear that was confirmed and not rejected by the store leaves no
\* value under the key, whatever was there; a clear that was declined leaves
\* the store as it was; a load reads the store as it is when the load
\* starts and gives the screen the list it read, the empty list when there
\* is no value.
C24_ClearEmptiesStore ==
    [][/\ (event'.handler = "clearHistory" /\ ~event'.failed)
          => (storage' = Absent /\ Parse(storage') = <<>>)
       /\ (event'.handler = "handleClearHistory") => storage' = storage
       /\ (Len(loads') > Len(loads)) => loads'[Len(loads')].read = storage
       /\ (event'.handler = "loadHistory" /\ loads' # loads /\ ~event'.failed)
          => history' = Parse(loads[1].read)]_vars

\* after a save of this session the history was cleared and then loaded
C24_Witness ==
    /\ saved > SessionStart
    /\ deleted = 0
    /\ storage = Absent
    /\ event.handler = "loadHistory"
    /\ history = <<>>
    /\ ~isLoading
    /\ loads = <<>>
    /\ saveRuns = <<>>

\* a write of a settings record is pending
SavePending(runs) == \E i \in 1..Len(runs) : runs[i].kind = "save"

C27_SuccessShowsResult ==
    [][/\ (event'.handler = "onSuccess" /\ Len(posts') < Len(posts))
          => /\ event'.haptics = <<"notification.Success">>
             /\ analysisMutation'.status = "success"
             /\ modal'
             /\ params' = [imageUri |-> imageData.uri,
                           imageBase64 |-> imageData.base64,
                           result |-> analysisMutation'.data]
             /\ storage' = storage
             /\ saveRuns' = saveRuns
       /\ (storage' # storage) => event'.handler = "handleSaveToHistory"
       /\ (Len(saveRuns') > Len(saveRuns))
          => (event'.handler = "handleSaveToHistory" /\ modal)]_vars

\* the result of picture file:b is on the results screen and nothing has
\* been stored
C27_Witness ==
    /\ event.handler = "onSuccess"
    /\ modal
    /\ params.imageUri = "file:b"
    /\ params.imageBase64 = Encoded(8)
    /\ DOMAIN params.result = RequiredFields
    /\ storage = Absent
    /\ saveRuns = <<>>

\* an Error of the client whose message is the message string err itself,
\* not the JSON text of a body that holds it
MessageOf(err) ==
    ClientError("", [kind |-> "message", result |-> <<>>, error |-> err])

\* C28: after a POST /api/analyze that the server answered with an error
\* body, the error card shows the message string of that body.
C28_ClientShowsServerMessage ==
    (isError(analysisMutation) /\ analysisMutation.error.text.kind = "error")
    => ErrorCard(analysisMutation) = MessageOf(analysisMutation.error.text.error)

\* reading or decoding the body of the answer failed
ReadFailed(body) == ~body.readable \/ body.kind = "notJson"

\* C35: once an attempt of an analyze request has been answered (2xx or not),
\* the request makes no further network call and no timer of an attempt is
\* pending, so nothing but the reading of the body stands between the
\* response and the answer; when reading or decoding the body fails, the
\* request is answered 500 after the calls made so far.
C35_NoCallAfterResponse ==
    \A r \in ReqIds :
        LET q == req[r]
        IN (q.route = "analyze" /\ q.response.from # 0)
           => /\ q.calls = q.response.from
              /\ q.timers = {}
              /\ q.inflight = {}
              /\ q.pc \in {"readText", "readJson", "done"}
              /\ (q.pc = "done" /\ ReadFailed(q.body))
                 => /\ q.http.status = 500
                    /\ q.http.kind = "error"
                    /\ q.http.error.msg \in {MsgBodyTerminated, MsgBodyNotJson}

\* a 2xx answer to the second attempt whose body broke off has been answered
\* 500 after two calls
C35_Witness ==
    \E r \in ReqIds :
        /\ req[r].route = "analyze"
        /\ req[r].outcomes = <<"network", "response">>
        /\ req[r].response.ok
        /\ req[r].body.kind = "noContent"
        /\ ~req[r].body.readable
        /\ req[r].pc = "done"
        /\ req[r].calls = 2
        /\ req[r].http = HttpError(500, Err(MsgBodyTerminated, 0, ""))

\* the body of a 2xx answer was read and decoded
Decoded(q) ==
    /\ q.route = "analyze"
    /\ q.pc = "done"
    /\ q.response.ok
    /\ q.body.readable
    /\ q.body.kind \in {"noContent", "content"}

\* C36: when the decoded body of a 2xx answer has no choices, no message or
\* an empty completion content, the request is answered 500 with the
\* no-response error; an analyze request is answered 200 only after a
\* non-empty completion content was received and an object parsed from it.
C36_NoContentIsNoResponse ==
    \A r \in ReqIds :
        LET q == req[r]
        IN /\ (Decoded(q) /\ q.body.content = <<>>)
              => q.http = HttpError(500, Err(MsgNoResponse, 0, ""))
           /\ (q.route = "analyze" /\ q.http.status = 200)
              => /\ Decoded(q)
                 /\ q.body.kind = "content"
                 /\ q.body.content # <<>>
                 /\ JSONParse(RegexMatch(q.body.content)).ok
                 /\ q.http.result = JSONParse(RegexMatch(q.body.content)).value

\* a body without choices[0].message.content has been answered 500 with the
\* no-response error
C36_Witness ==
    \E r \in ReqIds :
        /\ Decoded(req[r])
        /\ req[r].body.kind = "noContent"
        /\ req[r].http.status = 500
        /\ req[r].http.error.msg = MsgNoResponse

\* the first "{" of a text that has a "}" after it, 0 when there is none
FirstOpen(content) ==
    LET opens == {i \in 1..Len(content) :
                    /\ content[i] = LB
                    /\ \E j \in (i + 1)..Len(content) : content[j] = RB}
    IN IF opens = {} THEN 0 ELSE Min(opens)

\* the last "}" of a text, 0 when there is none
LastClose(content) ==
    LET closes == {j \in 1..Len(content) : content[j] = RB}
    IN IF closes = {} THEN 0 ELSE Max(closes)

\* the text has a {...} span, and between the outer braces of the span
\* there is something that is not a member: the span is not JSON
BadSpan(content) ==
    /\ FirstOpen(content) # 0
    /\ \E i \in (FirstOpen(content) + 1)..(LastClose(content) - 1) :
          ~IsMember(content[i])

\* C37: when the completion content has a {...} span that is not valid JSON,
\* the request is answered 500 with the error of the parse; whenever the
\* content has a span, a 200 answer carries exactly the members between the
\* outer braces of the span, all of them.
C37_BadSpanIsRejected ==
    \A r \in ReqIds :
        LET q == req[r]
            c == q.body.content
        IN /\ (Decoded(q) /\ BadSpan(c))
              => q.http = HttpError(500, Err(MsgSyntaxError, 0, ""))
           /\ (Decoded(q) /\ q.http.status = 200)
              => /\ ~BadSpan(c)
                 /\ FirstOpen(c) # 0
                 /\ \A i \in (FirstOpen(c) + 1)..(LastClose(c) - 1) :
                       /\ c[i][1] \in DOMAIN q.http.result
                       /\ \/ q.http.result[c[i][1]] = c[i][2]
                          \/ \E j \in (i + 1)..(LastClose(c) - 1) :
                                c[j][1] = c[i][1]

\* an object with a stray "{" in front of it has been answered 500
C37_Witness ==
    \E r \in ReqIds :
        /\ Decoded(req[r])
        /\ Len(req[r].body.content) > 3
        /\ req[r].body.content[1] = LB
        /\ req[r].body.content[2] = LB
        /\ IsMember(req[r].body.content[3])
        /\ req[r].http = HttpError(500, Err(MsgSyntaxError, 0, ""))

\* the statuses a route answers with
StatusesOf(route) == IF route = "analyze" THEN {200, 400, 500} ELSE {200, 503}

\* C38: a request is never answered twice; a handler that has returned has
\* answered once, with 200, 400 or 500 on POST /api/analyze and with 200 or
\* 503 on GET /api/health/abacus; a request is over only after its answer;
\* and every request that arrived is answered in the end.
C38_ExactlyOneAnswer ==
    /\ [](\A r \in DOMAIN req :
             /\ req[r].answers <= 1
             /\ (req[r].pc = "done") <=> (req[r].answers = 1)
             /\ req[r].answers = 1
                => /\ req[r].http.status \in StatusesOf(req[r].route)
                   /\ req[r].http.kind # "none")
    /\ [][\A r \in DOMAIN req :
             (req[r].pc # "idle" /\ req'[r].pc = "idle") => req[r].answers = 1]_vars
    /\ \A r \in PairIds :
          (r \in DOMAIN req /\ req[r].pc = "received")
             ~> (r \in DOMAIN req /\ req[r].pc = "done")

\* a health check whose only attempt timed out has been answered once: 503
C38_Witness ==
    \E r \in DOMAIN req :
        /\ req[r].route = "health"
        /\ req[r].outcomes = <<"abort">>
        /\ req[r].pc = "done"
        /\ req[r].answers = 1
        /\ req[r].http = HttpHealth(503, "down")

\* C39: the body of every submission of the client carries, in the field
\* the server reads, a non-empty string, which is the image the POST handler
\* then has; so no submission is answered 400 and the client never gets the
\* missing-image error.
C39_SubmissionIsNever400 ==
    /\ \A i \in 1..Len(posts) :
          /\ Destructure(posts[i].body).kind = "string"
          /\ Destructure(posts[i].body).len > 0
    /\ \A r \in DOMAIN req :
          req[r].route = "analyze"
          => /\ req[r].image = Destructure(posts[1].body)
             /\ ~Falsy(req[r].image)
             /\ req[r].http.status # 400
             /\ req[r].http.error.msg # MsgRequired
    /\ analysisMutation.error.text.error.msg # MsgRequired

\* a submission has reached the server, which refused it for want of the
\* credential, and the client shows that error
C39_Witness ==
    /\ event.handler = "onError"
    /\ isError(analysisMutation)
    /\ analysisMutation.variables = Encoded(8)
    /\ analysisMutation.error.text.error.msg = MsgUnconfigured

\* C31: when a submission succeeds, the image handed to the results screen
\* with the result is the image whose payload was submitted: its payload is
\* the payload of the request body and its uri is the uri of that picture.
C31_ResultPairsWithSubmittedImage ==
    [][\A i \in 1..Len(posts) :
          (posts' = Drop(posts, i) /\ event'.handler = "onSuccess")
          => /\ params'.imageBase64 = posts[i].body.imageBase64
             /\ \E p \in Pictures :
                   /\ p.len = posts[i].body.imageBase64.len
                   /\ params'.imageUri = p.uri]_vars

\* C32: the persisted history never holds more than 50 entries, whatever
\* saves, deletes, clears and loads have run and however they overlapped.
C32_AtMostFiftyPersisted ==
    Len(Parse(storage)) <= 50

\* a save onto a full history and a delete have both written, and the
\* history is full again after one more save
C32_Witness ==
    /\ Len(Parse(storage)) = 50
    /\ deleted > 0
    /\ saved = SessionStart + 2
    /\ saveRuns = <<>>
    /\ Parse(storage)[1].save = saved

\* C33: a delete(id) that wrote leaves the persisted history equal to the
\* history persisted before it without the entries of that id.
C33_DeleteFiltersPersisted ==
    [][(deleted' # deleted /\ ~event'.failed)
       => Parse(storage') = Filter(Parse(storage), event'.id)]_vars

\* C34: a save that writes keeps every entry persisted before it, in its
\* order behind the new entry, but for what the cap cuts off; and a save
\* that has ended without error and whose entry was neither cut off, nor
\* deleted, nor cleared has its entry in the persisted list.
C34_SaveLosesNoUpdate ==
    [][(event'.handler = "handleSaveToHistory" /\ storage' # storage)
       => LET old == Parse(storage)
              new == Parse(storage')
          IN /\ Len(new) = (IF Len(old) < 50 THEN Len(old) + 1 ELSE 50)
             /\ \A k \in 1..(Len(new) - 1) : new[k + 1] = old[k]]_vars

====
